---- MODULE Spec2Model ----
(***************************************************************************)
(* The dependency / installation orchestration engine of onboard.computer: *)
(* the renderer (src/electron/renderer.js) and the main-process executor   *)
(* it invokes (main.js, whose text is kept in src/website/skill.md).       *)
(*                                                                         *)
(* One action is one task of the renderer's event loop (a click, or the    *)
(* continuation of an await up to the next await), together with the       *)
(* main-process handler it invokes.  The exit of a child process is one    *)
(* action too: the 'close' handler resolves the pending invoke and the     *)
(* renderer function awaiting it continues up to its next await.           *)
(***************************************************************************)
EXTENDS Integers, Sequences, FiniteSets, TLC

VARIABLES
  currentConfig,     \* renderer.js:31
  toolStates,        \* renderer.js:32   { [id]: state }
  appStates,         \* renderer.js:33
  toolCards,         \* the action area of each rendered tool card (DOM)
  appCards,          \* the action area of each rendered app card (DOM)
  terminalOutputs,   \* renderer.js:38   { [terminalId]: { lines, active } }
  activityLog,       \* renderer.js:1116 most recent first
  errors,            \* the error toasts shown by showError, oldest first
  pendingUninstall,  \* renderer.js:1255
  uninstallModal,    \* the modal's DOM: display, input value, confirm disabled
  uncaught,          \* operations that ended in an uncaught exception
  activeProcesses,   \* main process: Map id -> { child, cancelled }
  ops,               \* the streaming operations in flight (frame + child)
  resolved,          \* what the last 'close' handler resolved its invoke with
  checkAlls,         \* the checkAllTools frames awaiting their Phase 1
  enriching,         \* fire-and-forget enrichments awaiting getToolVersion
  batch,             \* the installAllDeps / installAllApps frames
  sys,               \* the machine: what each item's check command observes
  spawned,           \* number of streaming commands spawned so far
  loads,             \* number of loads that have got their result so far
  probe              \* the last application of a pure function, with its input;
                     \* the history of a watched run; the legacy window's state

vars == <<currentConfig, toolStates, appStates, toolCards, appCards,
          terminalOutputs, activityLog, errors, pendingUninstall,
          uninstallModal, uncaught, activeProcesses, ops, resolved,
          checkAlls, enriching, batch, sys, spawned, loads, probe>>

\* ───────────────────────── bounds of the model ─────────────────────────
MaxStarts == 2     \* streaming commands spawned in one run
MaxOut == 1        \* lines a child writes to one terminal
MaxWords == 4      \* words of an install command given to the derivation
MaxPasses == 2     \* checkAllTools passes under way at once, enrichments included
MaxChunk == 3      \* characters of one chunk of output
MaxEvents == 2     \* output events, bursts and clears of one run of the buffers
MaxLogged == 3     \* entries and bursts of entries appended in one run of the log
MaxLoads == 2      \* loads that get their result in one run

\* ───────────────────────── program constants ───────────────────────────
MAX_TERMINAL_LINES == 200
MAX_ACTIVITY == 50
MAX_HISTORY == 10

None == "none"

\* ───────────────────────── JS objects as functions ─────────────────────
\* obj[key] of a JS object: undefined when the key is absent.
Get(obj, key, undef) == IF key \in DOMAIN obj THEN obj[key] ELSE undef

\* obj[key] = value
Put(obj, key, value) ==
  [k \in DOMAIN obj \cup {key} |-> IF k = key THEN value ELSE obj[k]]

\* A state object none of whose fields is set: every read of it is falsy.
Undefined ==
  [status |-> "undefined", installed |-> FALSE, installing |-> FALSE,
   version |-> None, latestVersion |-> None, hasUpdate |-> FALSE]

\* { status: 'unchecked', installed: false }
Unchecked == [Undefined EXCEPT !.status = "unchecked"]

\* { status: 'checking', installed: false }
Checking == [Undefined EXCEPT !.status = "checking"]

\* ───────────────────────── items and configurations ────────────────────
Item(id, dep, cmd) ==
  [id |-> id, name |-> id, check |-> <<"which", id>>, depends_on |-> dep, install |-> cmd]

\* What find() returns when no item has the id (undefined).
NoItem == Item(None, None, <<>>)

\* currentConfig = null
NoConfig == [name |-> None, dependencies |-> <<>>, apps |-> <<>>]

CurlInstall == <<"/bin/bash", "-c", "curl">>
BrewInstall(pkg) == <<"brew", "install", pkg>>
CaskInstall(pkg) == <<"brew", "install", "--cask", pkg>>

\* The configurations a load can deliver ("ghost" is no item of any of them):
\*   a chain listed in dependency order, the same chain listed in reverse,
\*   an app that depends on a tool, and a tool whose dependency is missing.
ToolA == Item("a", None, CurlInstall)
ToolB(dep) == Item("b", dep, BrewInstall("b"))
AppX(dep) == Item("x", dep, CaskInstall("x"))

ConfigSet ==
  { [name |-> "chain", dependencies |-> <<ToolA, ToolB("a")>>, apps |-> <<>>],
    [name |-> "reversed", dependencies |-> <<ToolB("a"), ToolA>>, apps |-> <<>>],
    [name |-> "app", dependencies |-> <<ToolA>>, apps |-> <<AppX("a")>>],
    [name |-> "dangling", dependencies |-> <<ToolB("ghost")>>, apps |-> <<AppX(None)>>] }

\* What yaml.load makes of the text a source delivers: an object, of which
\* `missing` names the keys it lacks and `config` gives the others, or null
\* (an empty document); "unreadable" stands for a source that cannot be read
\* (no such file, HTTP error, YAML syntax error).
Doc(kind, missing, cfg) == [kind |-> kind, missing |-> missing, config |-> cfg]

\* The documents without a defect.
ValidDocs == {Doc("object", {}, cfg) : cfg \in ConfigSet}

\* One defective document for each rule of validateConfig, and one that
\* cannot be read.
BaseConfig == [name |-> "app", dependencies |-> <<ToolA>>, apps |-> <<AppX("a")>>]

InvalidDocs ==
  { Doc("unreadable", {}, NoConfig),
    Doc("null", {}, NoConfig),
    Doc("object", {"name"}, BaseConfig),
    Doc("object", {"dependencies"}, BaseConfig),
    Doc("object", {"apps"}, BaseConfig),
    Doc("object", {}, [BaseConfig EXCEPT !.dependencies[1].id = ""]),
    Doc("object", {}, [BaseConfig EXCEPT !.dependencies[1].name = ""]),
    Doc("object", {}, [BaseConfig EXCEPT !.apps[1].check = <<>>]),
    Doc("object", {}, [BaseConfig EXCEPT !.apps[1].install = <<>>]) }

Documents == ValidDocs \cup InvalidDocs

Sources == {"file", "url", "bundled"}

\* { error: message } or the loaded value.
Failure(message) == [error |-> message, doc |-> Doc("null", {}, NoConfig)]
Loaded(doc) == [error |-> <<>>, doc |-> doc]

\* validateItem: the first of id, name, check, install that is empty.
validateItem(item, section) ==
  IF item.id = "" THEN <<"Item in", section, "missing id">>
  ELSE IF item.name = "" THEN <<"Item", item.id, "missing name">>
  ELSE IF item.check = <<>> THEN <<"Item", item.id, "missing check">>
  ELSE IF item.install = <<>> THEN <<"Item", item.id, "missing install">>
  ELSE <<>>

\* The first item of `list` validateItem throws for, as its message.
FirstInvalid(list, section) ==
  LET bad == {i \in DOMAIN list : validateItem(list[i], section) # <<>>}
  IN IF bad = {} THEN <<>>
     ELSE validateItem(list[CHOOSE i \in bad : \A j \in bad : i <= j], section)

\* validateConfig: the message of the Error it throws, <<>> when it returns.
validateConfig(doc) ==
  IF doc.kind # "object" THEN <<"Invalid config: not an object">>
  ELSE IF "name" \in doc.missing \/ doc.config.name = "" THEN <<"Config missing name">>
  ELSE IF "dependencies" \in doc.missing THEN <<"Config missing dependencies array">>
  ELSE IF "apps" \in doc.missing THEN <<"Config missing apps array">>
  ELSE IF FirstInvalid(doc.config.dependencies, "dependencies") # <<>>
    THEN FirstInvalid(doc.config.dependencies, "dependencies")
  ELSE FirstInvalid(doc.config.apps, "apps")

\* config:loadFile and config:loadURL validate what they have read and turn
\* every throw into { error }; config:loadBundled returns what it has read.
loadSource(source, doc) ==
  IF doc.kind = "unreadable" THEN Failure(<<"cannot read">>)
  ELSE IF source = "bundled" THEN Loaded(doc)
  ELSE IF validateConfig(doc) # <<>> THEN Failure(validateConfig(doc))
  ELSE Loaded(doc)

\* The configuration the renderer sees in a loaded object: a key the object
\* lacks reads as undefined.
Effective(doc) ==
  [name |-> IF "name" \in doc.missing THEN None ELSE doc.config.name,
   dependencies |-> IF "dependencies" \in doc.missing THEN <<>> ELSE doc.config.dependencies,
   apps |-> IF "apps" \in doc.missing THEN <<>> ELSE doc.config.apps]

ItemIds == {"a", "b", "x"}

\* The machine at start-up: nothing installed, or everything at version v1.
InitialSys == {[i \in ItemIds |-> "missing"], [i \in ItemIds |-> "v1"]}

\* currentConfig?.dependencies || [] and currentConfig?.apps || []
dependencies(cfg) == cfg.dependencies
apps(cfg) == cfg.apps
ItemsOf(cfg, type) == IF type = "tool" THEN dependencies(cfg) ELSE apps(cfg)

\* (list).find(t => t.id === id): the first match, None when there is none.
Find(list, id) ==
  IF \E i \in DOMAIN list : list[i].id = id
    THEN list[CHOOSE i \in DOMAIN list :
                /\ list[i].id = id
                /\ \A j \in DOMAIN list : list[j].id = id => i <= j]
    ELSE NoItem

\* `tool-${toolId}` for a tool, the bare id for an app.
TerminalId(type, id) == IF type = "tool" THEN "tool-" \o id ELSE id

\* installCmd.match(/brew install\s+(--cask\s+)?(\S+)/) on the command's words.
NoMatch == [matched |-> FALSE, cask |-> FALSE, pkgName |-> None]

brewMatch(cmd) ==
  LET hits == {i \in DOMAIN cmd :
                 /\ i + 2 <= Len(cmd)
                 /\ cmd[i] = "brew" /\ cmd[i + 1] = "install"}
  IN IF hits = {} THEN NoMatch
     ELSE LET i == CHOOSE h \in hits : \A g \in hits : h <= g
          IN IF cmd[i + 2] = "--cask" /\ i + 3 <= Len(cmd)
               THEN [matched |-> TRUE, cask |-> TRUE, pkgName |-> cmd[i + 3]]
               ELSE [matched |-> TRUE, cask |-> FALSE, pkgName |-> cmd[i + 2]]

\* The command uninstall and upgrade derive from the install command:
\* `brew ${verb} ${caskFlag}${pkgName}`, or null when the pattern is not found.
NoCommand == <<>>

deriveCommand(verb, installCmd) ==
  LET m == brewMatch(installCmd)
  IN IF ~m.matched THEN NoCommand
     ELSE <<"brew", verb>> \o (IF m.cask THEN <<"--cask">> ELSE <<>>) \o <<m.pkgName>>

\* ───────────────────────── the machine ─────────────────────────────────
\* brew list --versions / `${tool.id} --version`: the installed version.
InstalledVersion(sysval) == IF sysval = "missing" THEN None ELSE sysval

\* getToolVersion: version, latestVersion and hasUpdate of a tool.  Only a
\* brew-installed tool is looked up in `brew outdated`; v2 is the latest.
\* `ok` tells whether the version commands succeed: when they fail the
\* initial null, null, false are returned.
getToolVersion(tool, sysval, ok) ==
  IF ~ok
    THEN [version |-> None, latestVersion |-> None, hasUpdate |-> FALSE]
  ELSE IF brewMatch(tool.install).matched
    THEN [version |-> InstalledVersion(sysval),
          latestVersion |-> IF sysval = "v1" THEN "v2" ELSE None,
          hasUpdate |-> sysval = "v1"]
    ELSE [version |-> InstalledVersion(sysval),
          latestVersion |-> None, hasUpdate |-> FALSE]

\* getAppVersion: the bundle's version string, or null when the commands fail.
getAppVersion(app, sysval, ok) == IF ok THEN InstalledVersion(sysval) ELSE None

\* ───────────────────────── the state as one value ──────────────────────
\* The synchronous code of a task is a function from state to state; an
\* action applies the composition of the functions its task runs.
Cur ==
  [currentConfig |-> currentConfig, toolStates |-> toolStates,
   appStates |-> appStates, toolCards |-> toolCards, appCards |-> appCards,
   terminalOutputs |-> terminalOutputs, activityLog |-> activityLog,
   errors |-> errors, pendingUninstall |-> pendingUninstall,
   uninstallModal |-> uninstallModal, uncaught |-> uncaught,
   activeProcesses |-> activeProcesses, ops |-> ops, resolved |-> resolved,
   checkAlls |-> checkAlls,
   enriching |-> enriching, batch |-> batch, sys |-> sys, spawned |-> spawned,
   loads |-> loads]

\* The streaming operations that have shared their terminal id with another
\* one while both were under way.
Overlapping(S) ==
  {s \in DOMAIN S.ops :
     /\ S.ops[s].kind # "free"
     /\ \E o \in DOMAIN S.ops \ {s} :
          /\ S.ops[o].kind # "free"
          /\ S.ops[o].type = S.ops[s].type
          /\ S.ops[o].item.id = S.ops[s].item.id}

\* The history kept of a run that is watched for such overlaps.
track(history, S) ==
  IF history.fn = "overlap"
    THEN [history EXCEPT !.slots = @ \cup Overlapping(S)]
    ELSE history

Apply(S) ==
  /\ S.spawned <= MaxStarts
  /\ currentConfig' = S.currentConfig
  /\ toolStates' = S.toolStates
  /\ appStates' = S.appStates
  /\ toolCards' = S.toolCards
  /\ appCards' = S.appCards
  /\ terminalOutputs' = S.terminalOutputs
  /\ activityLog' = S.activityLog
  /\ errors' = S.errors
  /\ pendingUninstall' = S.pendingUninstall
  /\ uninstallModal' = S.uninstallModal
  /\ uncaught' = S.uncaught
  /\ activeProcesses' = S.activeProcesses
  /\ ops' = S.ops
  /\ resolved' = S.resolved
  /\ checkAlls' = S.checkAlls
  /\ enriching' = S.enriching
  /\ batch' = S.batch
  /\ sys' = S.sys
  /\ spawned' = S.spawned
  /\ loads' = S.loads
  /\ probe' = track(probe, S)

\* toolStates[id] / appStates[id]
StateOf(S, type, id) ==
  Get(IF type = "tool" THEN S.toolStates ELSE S.appStates, id, Undefined)

\* toolStates[id] = st / appStates[id] = st
SetState(S, type, id, st) ==
  IF type = "tool"
    THEN [S EXCEPT !.toolStates = Put(@, id, st)]
    ELSE [S EXCEPT !.appStates = Put(@, id, st)]

\* ───────────────────────── rendering ───────────────────────────────────
\* The dependency gate of renderAction: the disabled "Needs <dep>" button
\* is rendered iff the item has a depends_on whose state exists in the
\* store OF THE ITEM'S OWN TYPE and is not installed.
NeedsDependency(S, item, type) ==
  /\ item.depends_on # None
  /\ LET store == IF type = "tool" THEN S.toolStates ELSE S.appStates
     IN /\ item.depends_on \in DOMAIN store
        /\ ~store[item.depends_on].installed

\* renderAction: which affordance the card of `item` offers.
renderAction(S, item, state, type) ==
  IF state.status = "checking" THEN "spinner"
  ELSE IF state.installing THEN "cancel"
  ELSE IF state.installed
    THEN IF type = "app" THEN "open"
         ELSE IF state.hasUpdate /\ state.latestVersion # None
                THEN "uninstall+upgrade" ELSE "uninstall"
  ELSE IF NeedsDependency(S, item, type) THEN "needs"
  ELSE "install"

\* The state a card is rendered from: toolStates[id] || { unchecked }.
CardState(S, type, id) ==
  LET store == IF type = "tool" THEN S.toolStates ELSE S.appStates
  IN Get(store, id, Unchecked)

CardsOf(S, type) ==
  LET list == ItemsOf(S.currentConfig, type)
  IN [id \in {list[i].id : i \in DOMAIN list} |->
        renderAction(S, Find(list, id), CardState(S, type, id), type)]

renderToolCards(S) == [S EXCEPT !.toolCards = CardsOf(S, "tool")]
renderAppCards(S) == [S EXCEPT !.appCards = CardsOf(S, "app")]
Render(S, type) == IF type = "tool" THEN renderToolCards(S) ELSE renderAppCards(S)

\* ───────────────────────── terminal, log, errors ───────────────────────
\* initTerminalOutput
initTerminalOutput(S, id) ==
  IF id \in DOMAIN S.terminalOutputs THEN S
  ELSE [S EXCEPT !.terminalOutputs = Put(@, id, [lines |-> <<>>, active |-> FALSE])]

\* setTerminalActive
setTerminalActive(S, id, active) ==
  LET S1 == initTerminalOutput(S, id)
  IN [S1 EXCEPT !.terminalOutputs[id].active = active]

\* clearTerminalOutput
clearTerminalOutput(S, id) ==
  IF id \in DOMAIN S.terminalOutputs
    THEN [S EXCEPT !.terminalOutputs[id].lines = <<>>]
    ELSE S

\* A string is the sequence of its characters.  data.split('\n'): the pieces
\* between the newlines, the empty ones included.
RECURSIVE split(_)
split(data) ==
  LET newlines == {i \in DOMAIN data : data[i] = "\n"}
  IN IF newlines = {} THEN <<data>>
     ELSE LET i == CHOOSE n \in newlines : \A m \in newlines : n <= m
          IN <<SubSeq(data, 1, i - 1)>> \o split(SubSeq(data, i + 1, Len(data)))

\* .filter(l => l.length > 0)
NonEmpty(line) == Len(line) > 0

\* A buffer that drops the newest line once it is full.
pushLineKeepingOldest(buffer, entry) ==
  IF Len(buffer) >= MAX_TERMINAL_LINES THEN buffer ELSE Append(buffer, entry)

\* lines.push(entry); if (lines.length > MAX_TERMINAL_LINES) lines.shift()
pushLine(buffer, entry) ==
  LET pushed == Append(buffer, entry)
  IN IF Len(pushed) > MAX_TERMINAL_LINES THEN Tail(pushed) ELSE pushed

\* lines.forEach(line => ...)
RECURSIVE pushLines(_, _, _)
pushLines(buffer, lines, stream) ==
  IF lines = <<>> THEN buffer
  ELSE pushLines(pushLine(buffer, [text |-> Head(lines), stream |-> stream]),
                 Tail(lines), stream)

\* appendTerminalOutput(id, data, stream)
appendTerminalOutput(S, id, data, stream) ==
  LET S1 == initTerminalOutput(S, id)
  IN [S1 EXCEPT !.terminalOutputs[id].lines =
        pushLines(@, SelectSeq(split(data), NonEmpty), stream)]

\* A log that drops the entry it has just been given once it is full.
logActivityKeepingOldest(S, action, name, version) ==
  LET entry == [action |-> action, name |-> name, version |-> version]
  IN [S EXCEPT !.activityLog =
        IF Len(@) >= MAX_ACTIVITY THEN @ ELSE <<entry>> \o @]

\* logActivity: unshift, then drop the oldest beyond 50.
logActivity(S, action, name, version) ==
  LET entry == [action |-> action, name |-> name, version |-> version]
      log == <<entry>> \o S.activityLog
  IN [S EXCEPT !.activityLog =
        IF Len(log) > MAX_ACTIVITY THEN SubSeq(log, 1, Len(log) - 1) ELSE log]

\* showError: the toast with its message and (optional) details.
showError(S, message, details) ==
  [S EXCEPT !.errors = Append(@, [message |-> message, details |-> details])]

\* ───────────────────────── the process executor (main) ─────────────────
Remove(obj, key) == [k \in DOMAIN obj \ {key} |-> obj[k]]

\* activeProcesses.get(id) when the id has no entry.
NoProcess == [child |-> 0, cancelled |-> FALSE]

\* A slot of `ops` that holds no operation.
Free == [kind |-> "free"]

\* The child processes of a run are numbered in the order they are spawned;
\* the operation that spawned child n is kept in ops[n].
Slots == 1..MaxStarts
FreeSlot(S) == S.spawned + 1

\* No 'close' handler has run yet.
NoResult == [child |-> 0, id |-> None, succeeded |-> FALSE, cancelled |-> FALSE]

\* ipcMain.handle('shell:runStreamingWithId'): spawn the child and register
\* it under `id`, whatever is registered there; `frame` is the renderer's
\* async function that awaits the result.
runStreamingWithId(S, id, slot, frame) ==
  [S EXCEPT !.activeProcesses = Put(@, id, [child |-> slot, cancelled |-> FALSE]),
            !.ops = IF slot \in Slots THEN [@ EXCEPT ![slot] = [frame EXCEPT !.pc = "stream"]]
                    ELSE @,
            !.spawned = @ + 1]

\* The frame of a streaming operation before its command is spawned.
Frame(kind, type, item, waiter, toVersion) ==
  [kind |-> kind, type |-> type, item |-> item, pc |-> "start",
   signalled |-> FALSE, succeeded |-> FALSE, cancelled |-> FALSE,
   waiter |-> waiter, toVersion |-> toVersion]

\* The 'close' handler of the child in `slot`, exiting with `code`
\* (-1 stands for JS null: the child was terminated by a signal).
closeHandler(S, slot, code) ==
  LET id == TerminalId(S.ops[slot].type, S.ops[slot].item.id)
      processInfo == Get(S.activeProcesses, id, NoProcess)
  IN [S EXCEPT !.activeProcesses = Remove(@, id),
               !.ops[slot].pc = "resolved",
               !.ops[slot].succeeded = (code = 0),
               !.ops[slot].cancelled = processInfo.cancelled,
               !.resolved = [child |-> slot, id |-> id, succeeded |-> (code = 0),
                             cancelled |-> processInfo.cancelled]]

\* ipcMain.handle('shell:cancelProcess'): mark and signal the registered child.
cancelProcess(S, id) ==
  IF id \in DOMAIN S.activeProcesses
    THEN [S EXCEPT !.activeProcesses[id].cancelled = TRUE,
                   !.ops[S.activeProcesses[id].child].signalled = TRUE]
    ELSE S

\* What cancelProcess returns.
cancelProcessResult(S, id) == id \in DOMAIN S.activeProcesses

\* ───────────────────────── streaming operations (renderer) ─────────────
\* A prologue that leaves the terminal as it is.
StartStreamingUncleared(S, frame, slot) ==
  LET type == frame.type
      id == frame.item.id
      tid == TerminalId(type, id)
      S1 == setTerminalActive(S, tid, TRUE)
      S2 == SetState(S1, type, id, [StateOf(S1, type, id) EXCEPT !.installing = TRUE])
  IN runStreamingWithId(Render(S2, type), tid, slot, frame)

\* The common prologue of installTool / installApp / upgradeTool: clear the
\* terminal, mark it active, set installing, render, spawn.
StartStreaming(S, frame, slot) ==
  LET type == frame.type
      id == frame.item.id
      tid == TerminalId(type, id)
      S1 == setTerminalActive(clearTerminalOutput(S, tid), tid, TRUE)
      S2 == SetState(S1, type, id, [StateOf(S1, type, id) EXCEPT !.installing = TRUE])
  IN runStreamingWithId(Render(S2, type), tid, slot, frame)

\* installTool(toolId) up to its await; installApp(appId) likewise.
installItem(S, type, id, slot, waiter) ==
  LET item == Find(ItemsOf(S.currentConfig, type), id)
  IN IF item = NoItem THEN S
     ELSE StartStreaming(S, Frame("install", type, item, waiter, None), slot)

installTool(S, toolId, slot, waiter) == installItem(S, "tool", toolId, slot, waiter)
installApp(S, appId, slot, waiter) == installItem(S, "app", appId, slot, waiter)

\* upgradeTool(toolId) up to its await.
upgradeTool(S, toolId, slot) ==
  LET tool == Find(dependencies(S.currentConfig), toolId)
      latest == StateOf(S, "tool", toolId).latestVersion
  IN IF tool = NoItem THEN S
     ELSE IF deriveCommand("upgrade", tool.install) = NoCommand
       THEN showError(S, <<"Cannot upgrade", toolId>>, None)
     ELSE StartStreaming(S, Frame("upgrade", "tool", tool, None,
                                  IF latest # None THEN latest ELSE "latest"), slot)

\* doUninstallTool(toolId) / doUninstallApp(appId) up to the await: only a
\* brew install command yields an uninstall command.
doUninstall(S, type, id, slot) ==
  LET item == Find(ItemsOf(S.currentConfig, type), id)
  IN IF item = NoItem THEN S
     ELSE IF deriveCommand("uninstall", item.install) = NoCommand
       THEN showError(S, <<"Cannot uninstall", id>>, None)
     ELSE StartStreaming(S, Frame("uninstall", type, item, None, None), slot)

\* ───────────────────────── batch install ───────────────────────────────
\* A batch pass over the tools that does not look at depends_on.
DependencyNotTested(S, tool) == TRUE

\* The dependency test of installAllDeps: toolStates[depends_on]?.installed.
DependencyMetTool(S, tool) ==
  tool.depends_on = None \/ StateOf(S, "tool", tool.depends_on).installed

\* The dependency test of installAllApps: a tool or another app.
DependencyMetApp(S, app) ==
  \/ app.depends_on = None
  \/ StateOf(S, "tool", app.depends_on).installed
  \/ StateOf(S, "app", app.depends_on).installed

DependencyMet(S, type, item) ==
  IF type = "tool" THEN DependencyMetTool(S, item) ELSE DependencyMetApp(S, item)

\* A loop that tests the dependency and not whether the item is installed.
BatchSkipsUnmetOnly(S, type, item) == ~DependencyMet(S, type, item)

\* The two `continue`s of the batch loops.
BatchSkips(S, type, item) ==
  StateOf(S, type, item.id).installed \/ ~DependencyMet(S, type, item)

NoBatch == [running |-> FALSE, list |-> <<>>, i |-> 0]

\* The for-loop of installAllDeps ("tool") / installAllApps ("app") from
\* position `from` up to its next await: skip, skip, ..., install one.
RECURSIVE BatchLoop(_, _, _)
BatchLoop(S, type, from) ==
  LET list == S.batch[type].list
      todo == {j \in from..Len(list) : ~BatchSkips(S, type, list[j])}
  IN IF todo = {} THEN [S EXCEPT !.batch[type] = NoBatch]
     ELSE LET j == CHOOSE k \in todo : \A m \in todo : k <= m
              S1 == [S EXCEPT !.batch[type].i = j]
              S2 == installItem(S1, type, list[j].id, FreeSlot(S1), type)
          IN IF S2 = S1 THEN BatchLoop(S1, type, j + 1) ELSE S2

\* installAllDeps() / installAllApps() up to the first await.
installAll(S, type) ==
  BatchLoop([S EXCEPT !.batch[type] =
               [running |-> TRUE, list |-> ItemsOf(S.currentConfig, type), i |-> 0]],
            type, 1)

\* The end of a streaming operation's async function: its frame is gone and
\* the batch loop awaiting it, if any, goes on in the same task.
FinishOp(S, slot) ==
  LET waiter == S.ops[slot].waiter
      S1 == [S EXCEPT !.ops[slot] = Free]
  IN IF waiter = None THEN S1 ELSE BatchLoop(S1, waiter, S1.batch[waiter].i + 1)

\* ───────────────────────── checks and enrichment ───────────────────────
\* What the commands run for `item` observe on the machine: the state of the
\* thing its check command looks for; a missing check command finds nothing.
Observed(S, item) ==
  IF item.check = <<>> THEN "missing" ELSE S.sys[item.check[2]]

\* A check that reports a failing check command as an error.
checkFastReporting(S, type, item) ==
  LET st == StateOf(S, type, item.id)
      S1 == Render(SetState(S, type, item.id,
                            [st EXCEPT !.status = "checked",
                                       !.installed = (Observed(S, item) # "missing")]),
                   type)
  IN IF Observed(S, item) = "missing"
       THEN showError(S1, <<"Check failed", item.id>>, None)
       ELSE S1

\* checkToolFast / checkAppFast after its await: status checked and
\* installed = result.succeeded over whatever the state is now.
checkFast(S, type, item) ==
  LET st == StateOf(S, type, item.id)
  IN Render(SetState(S, type, item.id,
                     [st EXCEPT !.status = "checked",
                                !.installed = (Observed(S, item) # "missing")]),
            type)

\* The guard of enrichToolVersion / enrichAppVersion.
enrichStarts(S, type, item) == StateOf(S, type, item.id).installed

\* An enrichment that takes a missing version for a missing item.
enrichWriteInstalled(S, type, item, ok) ==
  LET st == StateOf(S, type, item.id)
      info == getToolVersion(item, Observed(S, item), ok)
  IN Render(SetState(S, type, item.id,
                     [st EXCEPT !.version = info.version,
                                !.latestVersion = info.latestVersion,
                                !.hasUpdate = info.hasUpdate,
                                !.installed = (info.version # None)]),
            type)

\* An enrichment that writes the version fields without spreading the state.
enrichWriteReplacing(S, type, item, ok) ==
  LET info == getToolVersion(item, Observed(S, item), ok)
  IN Render(SetState(S, type, item.id,
                     [Undefined EXCEPT !.version = info.version,
                                       !.latestVersion = info.latestVersion,
                                       !.hasUpdate = info.hasUpdate]),
            type)

\* enrichToolVersion / enrichAppVersion after the await: the version fields
\* over whatever the state is now.
enrichWrite(S, type, item, ok) ==
  LET st == StateOf(S, type, item.id)
      info == getToolVersion(item, Observed(S, item), ok)
  IN Render(SetState(S, type, item.id,
                     IF type = "tool"
                       THEN [st EXCEPT !.version = info.version,
                                       !.latestVersion = info.latestVersion,
                                       !.hasUpdate = info.hasUpdate]
                       ELSE [st EXCEPT !.version = getAppVersion(item, Observed(S, item), ok)]),
            type)

\* checkTool / checkApp up to the await of the check command.
checkItem(S, type, item) == Render(SetState(S, type, item.id, Checking), type)

\* ───────────────────────── continuations of a streaming operation ──────
\* A continuation that forgets what was known of the item whatever the result.
resumeForgetting(S, slot) ==
  FinishOp(Render(SetState(S, S.ops[slot].type, S.ops[slot].item.id, Unchecked),
                  S.ops[slot].type),
           slot)

\* After `await runStreamingWithId`: installTool 622-641, installApp 769-788,
\* upgradeTool 740-753, doUninstallTool 689-703, doUninstallApp 868-882.
\* Only the install functions look at result.cancelled, and only installApp
\* leaves its failure branch without rendering the cards.
resumeStreaming(S, slot) ==
  LET op == S.ops[slot]
      type == op.type
      id == op.item.id
      S1 == SetState(S, type, id, [StateOf(S, type, id) EXCEPT !.installing = FALSE])
      S2 == setTerminalActive(S1, TerminalId(type, id), FALSE)
  IN IF op.kind = "install" /\ op.cancelled
       THEN FinishOp(Render(S2, type), slot)
     ELSE IF op.succeeded
       THEN [checkItem(S2, type, op.item) EXCEPT !.ops[slot].pc = "check"]
     ELSE LET S3 == logActivity(showError(S2, <<"Failed to", op.kind, id>>, "stderr"),
                                "failed", <<op.kind, id>>, None)
          IN FinishOp(IF op.kind = "install" /\ type = "app" THEN S3 ELSE Render(S3, type),
                      slot)

\* The last lines of the success branch: read the version, log, return.
logSuccess(S, slot) ==
  LET op == S.ops[slot]
      version == StateOf(S, op.type, op.item.id).version
  IN FinishOp(IF op.kind = "install"
                THEN logActivity(S, "installed", <<op.item.id>>, version)
              ELSE IF op.kind = "uninstall"
                THEN logActivity(S, "uninstalled", <<op.item.id>>, None)
              ELSE logActivity(S, "upgraded", <<op.item.id>>,
                               IF version # None THEN version ELSE op.toVersion),
              slot)

\* The re-check's checkToolFast returns: enrich if installed, else log.
recheckDone(S, slot) ==
  LET op == S.ops[slot]
      S1 == checkFast(S, op.type, op.item)
  IN IF enrichStarts(S1, op.type, op.item)
       THEN [S1 EXCEPT !.ops[slot].pc = "enrich"]
       ELSE logSuccess(S1, slot)

\* The re-check's enrichment returns: write the version fields, then log.
recheckEnriched(S, slot, ok) ==
  logSuccess(enrichWrite(S, S.ops[slot].type, S.ops[slot].item, ok), slot)

\* ───────────────────────── checkAllTools and loadConfig ────────────────
EmptyObject == [k \in {} |-> Undefined]

IdsOf(list) == {list[i].id : i \in DOMAIN list}

\* list.forEach(t => { store[t.id] = st })
SetEach(store, list, st) ==
  [k \in DOMAIN store \cup IdsOf(list) |-> IF k \in IdsOf(list) THEN st ELSE store[k]]

Pending(tools, appList) ==
  {<<"tool", tools[i]>> : i \in DOMAIN tools} \cup {<<"app", appList[i]>> : i \in DOMAIN appList}

\* Phase 2 of checkAllTools: enrichToolVersion / enrichAppVersion of every
\* item, each starting its await iff the item is recorded installed now.
phase2(S, frame) ==
  LET started == {p \in Pending(frame.tools, frame.apps) : enrichStarts(S, p[1], p[2])}
  IN [S EXCEPT !.enriching =
        [p \in DOMAIN @ \cup started |->
           Get(@, p, 0) + (IF p \in started THEN 1 ELSE 0)]]

\* checkAllTools() up to `await Promise.all`.
checkAllTools(S) ==
  LET tools == dependencies(S.currentConfig)
      appList == apps(S.currentConfig)
      S1 == [S EXCEPT !.toolStates = SetEach(@, tools, Checking),
                      !.appStates = SetEach(@, appList, Checking)]
      S2 == renderAppCards(renderToolCards(S1))
      frame == [tools |-> tools, apps |-> appList, pending |-> Pending(tools, appList)]
  IN IF frame.pending = {} THEN phase2(S2, frame)
     ELSE [S2 EXCEPT !.checkAlls = Append(@, frame)]

\* A pass that starts Phase 2 as soon as its first Phase 1 check returns.
checkAllCheckedEarly(S, f, p) ==
  phase2([checkFast(S, p[1], p[2]) EXCEPT !.checkAlls =
            SubSeq(@, 1, f - 1) \o SubSeq(@, f + 1, Len(@))],
         S.checkAlls[f])

\* One Phase 1 check of frame f returns; the last one releases Phase 2.
checkAllChecked(S, f, p) ==
  LET S1 == checkFast(S, p[1], p[2])
      left == S.checkAlls[f].pending \ {p}
  IN IF left = {}
       THEN phase2([S1 EXCEPT !.checkAlls =
                      SubSeq(@, 1, f - 1) \o SubSeq(@, f + 1, Len(@))],
                   S.checkAlls[f])
       ELSE [S1 EXCEPT !.checkAlls[f].pending = left]

\* A fire-and-forget enrichment returns.
enrichDone(S, p, ok) ==
  LET S1 == enrichWrite(S, p[1], p[2], ok)
  IN [S1 EXCEPT !.enriching =
        IF @[p] = 1 THEN Remove(@, p) ELSE [@ EXCEPT ![p] = @ - 1]]

\* A reset that adds the new items to the stores it finds.
resetStateKeeping(S, cfg) ==
  [S EXCEPT !.currentConfig = cfg,
            !.toolStates = SetEach(@, cfg.dependencies, Unchecked),
            !.appStates = SetEach(@, cfg.apps, Unchecked)]

\* "Reset state for new config" (lines 84-94): the stores are replaced by
\* fresh ones holding an unchecked state per item of `cfg`.
resetState(S, cfg) ==
  [S EXCEPT !.currentConfig = cfg,
            !.toolStates = SetEach(EmptyObject, cfg.dependencies, Unchecked),
            !.appStates = SetEach(EmptyObject, cfg.apps, Unchecked)]

\* loadConfig after a successful load of `cfg` (lines 84-111).
loadConfig(S, cfg) ==
  checkAllTools(renderAppCards(renderToolCards(resetState(S, cfg))))

\* loadConfig after its await (lines 78-111): an { error } result is shown
\* and nothing else happens; a null result passes `result && result.error`,
\* is assigned, the stores are emptied, and `currentConfig.dependencies`
\* throws; any other result is taken as the configuration.
loadResult(S, result) ==
  IF result.error # <<>>
    THEN showError(S, <<"Config error">> \o result.error, None)
  ELSE IF result.doc.kind = "null"
    THEN [S EXCEPT !.currentConfig = NoConfig,
                   !.toolStates = EmptyObject,
                   !.appStates = EmptyObject,
                   !.uncaught = @ \cup {"loadConfig"}]
  ELSE loadConfig(S, Effective(result.doc))

\* resetConfig
resetConfig(S) ==
  [S EXCEPT !.currentConfig = NoConfig,
            !.toolStates = EmptyObject,
            !.appStates = EmptyObject]

\* ───────────────────────── the uninstall modal ─────────────────────────
NoPending == [type |-> None, id |-> None]

\* String.prototype.toLowerCase on the texts a user types here.
toLowerCase(text) == IF text = "DELETE" THEN "delete" ELSE text

InputTexts == {"delete", "DELETE", "del"}

\* showUninstallModal
showUninstallModal(S, type, id) ==
  [S EXCEPT !.pendingUninstall = [type |-> type, id |-> id],
            !.uninstallModal = [display |-> TRUE, input |-> "", disabled |-> TRUE]]

\* hideUninstallModal
hideUninstallModal(S) ==
  [S EXCEPT !.uninstallModal.display = FALSE, !.pendingUninstall = NoPending]

\* An input handler that enables the confirm button whatever was typed.
enableConfirmAlways(S, text) ==
  [S EXCEPT !.uninstallModal.input = text, !.uninstallModal.disabled = FALSE]

\* onUninstallInputChange
onUninstallInputChange(S, text) ==
  [S EXCEPT !.uninstallModal.input = text,
            !.uninstallModal.disabled = (toLowerCase(text) # "delete")]

\* confirmUninstall: the modal is hidden first, then `pendingUninstall.type`
\* is read to choose doUninstallTool or doUninstallApp; reading a property
\* of null is a TypeError, which rejects the promise of this async function.
confirmUninstall(S) ==
  IF S.pendingUninstall = NoPending THEN S
  ELSE LET S1 == hideUninstallModal(S)
       IN IF S1.pendingUninstall = NoPending
            THEN [S1 EXCEPT !.uncaught = @ \cup {"confirmUninstall"}]
            ELSE doUninstall(S1, S1.pendingUninstall.type, S1.pendingUninstall.id,
                             FreeSlot(S1))

\* ───────────────────────── initial state ───────────────────────────────
Types == {"tool", "app"}

\* The chunks of output a child's pipes deliver: a few characters, line
\* breaks anywhere, on either stream.
Chars == {"a", "\n"}
Chunks == UNION {[1..n -> Chars] : n \in 1..MaxChunk}
Streams == {"stdout", "stderr"}

\* Nothing has been computed yet.
NoProbe == [fn |-> None]

Init ==
  /\ currentConfig = NoConfig
  /\ toolStates = EmptyObject
  /\ appStates = EmptyObject
  /\ toolCards = EmptyObject
  /\ appCards = EmptyObject
  /\ terminalOutputs = EmptyObject
  /\ activityLog = <<>>
  /\ errors = <<>>
  /\ pendingUninstall = NoPending
  /\ uninstallModal = [display |-> FALSE, input |-> "", disabled |-> TRUE]
  /\ uncaught = {}
  /\ activeProcesses = EmptyObject
  /\ ops = [s \in Slots |-> Free]
  /\ resolved = NoResult
  /\ checkAlls = <<>>
  /\ enriching = EmptyObject
  /\ batch = [t \in Types |-> NoBatch]
  /\ sys \in InitialSys
  /\ spawned = 0
  /\ loads = 0
  /\ probe = NoProbe

\* ───────────────────────── actions ─────────────────────────────────────
Cards(type) == IF type = "tool" THEN toolCards ELSE appCards

\* The first configuration is dropped, picked or opened and loads.  (A run
\* of this model loads one configuration; loading over a loaded one is not
\* among its actions.)
LoadConfig(cfg) ==
  /\ currentConfig = NoConfig
  /\ Apply(loadConfig(Cur, cfg))

\* The check command of one Phase 1 check returns.
CheckAllChecked(f, p) ==
  /\ f \in DOMAIN checkAlls
  /\ p \in checkAlls[f].pending
  /\ Apply(checkAllChecked(Cur, f, p))

\* A background enrichment returns.
EnrichDone(p, ok) ==
  /\ p \in DOMAIN enriching
  /\ Apply(enrichDone(Cur, p, ok))

\* The loaded configuration is loaded again (picked again from the history,
\* dropped again): loadConfig resets the stores and runs checkAllTools anew
\* while the checks and enrichments of earlier passes may still be under way.
Reload ==
  /\ currentConfig # NoConfig
  /\ Len(checkAlls) < MaxPasses
  /\ \A p \in DOMAIN enriching : enriching[p] < MaxPasses
  /\ Apply(loadConfig(Cur, currentConfig))

\* A source delivers `doc` to a load that was started earlier: loadConfig
\* resumes after its await.  Earlier passes may still be under way.
LoadDocument(source, doc) ==
  /\ loads < MaxLoads
  /\ Apply([loadResult(Cur, loadSource(source, doc)) EXCEPT !.loads = @ + 1])

\* The user resets the configuration.
ResetConfig ==
  /\ currentConfig # NoConfig
  /\ Apply(resetConfig(Cur))

\* Click on the Install button of a card.
ClickInstall(type, id) ==
  /\ id \in DOMAIN Cards(type)
  /\ Cards(type)[id] = "install"
  /\ Apply(installItem(Cur, type, id, FreeSlot(Cur), None))

\* Click on the cancel button of a card: cancelToolInstall / cancelInstall.
ClickCancel(type, id) ==
  /\ id \in DOMAIN Cards(type)
  /\ Cards(type)[id] = "cancel"
  /\ IF type = "app" /\ Find(apps(currentConfig), id) = NoItem
       THEN UNCHANGED vars
       ELSE LET S1 == cancelProcess(Cur, TerminalId(type, id))
                S2 == SetState(S1, type, id,
                               [StateOf(S1, type, id) EXCEPT !.installing = FALSE])
            IN Apply(Render(S2, type))

\* Click on the Upgrade button of a tool card.
ClickUpgrade(id) ==
  /\ id \in DOMAIN toolCards
  /\ toolCards[id] = "uninstall+upgrade"
  /\ Apply(upgradeTool(Cur, id, FreeSlot(Cur)))

\* installAllDeps() / installAllApps() is called: nothing in renderer.js
\* restricts when.  (The model keeps one pass per type at a time.)
ClickInstallAll(type) ==
  /\ ~batch[type].running
  /\ Apply(installAll(Cur, type))

\* The child of `slot` writes a line; the stream callback appends it.
Output(slot, data, stream) ==
  /\ ops[slot].kind # "free"
  /\ ops[slot].pc = "stream"
  /\ LET tid == TerminalId(ops[slot].type, ops[slot].item.id)
     IN /\ Len(Get(terminalOutputs, tid, [lines |-> <<>>]).lines) < MaxOut
        /\ Apply(appendTerminalOutput(Cur, tid, data, stream))

\* What a command that exits 0 leaves on the machine.
Effect(kind, sysval, took) ==
  IF ~took THEN sysval
  ELSE IF kind = "install" THEN (IF sysval = "missing" THEN "v1" ELSE sysval)
  ELSE IF kind = "uninstall" THEN "missing"
  ELSE "v2"

\* The child of `slot` exits with `code` (a signalled child may also exit
\* with no code), having changed the machine or not: the 'close' handler
\* resolves the invoke and the awaiting renderer function continues.
ProcClose(slot, code, took) ==
  /\ ops[slot].kind # "free"
  /\ ops[slot].pc = "stream"
  /\ code = -1 => ops[slot].signalled
  /\ took => code = 0
  /\ LET id == ops[slot].item.id
         S1 == [Cur EXCEPT !.sys[id] = Effect(ops[slot].kind, @, took)]
     IN Apply(resumeStreaming(closeHandler(S1, slot, code), slot))

\* The check command of the re-check returns.
RecheckDone(slot) ==
  /\ ops[slot].kind # "free"
  /\ ops[slot].pc = "check"
  /\ Apply(recheckDone(Cur, slot))

\* The enrichment of the re-check returns.
RecheckEnriched(slot, ok) ==
  /\ ops[slot].kind # "free"
  /\ ops[slot].pc = "enrich"
  /\ Apply(recheckEnriched(Cur, slot, ok))

\* Click on the uninstall button of an installed tool: uninstallTool.
ClickUninstall(id) ==
  /\ id \in DOMAIN toolCards
  /\ toolCards[id] \in {"uninstall", "uninstall+upgrade"}
  /\ ~uninstallModal.display
  /\ IF Find(dependencies(currentConfig), id) = NoItem
       THEN UNCHANGED vars
       ELSE Apply(showUninstallModal(Cur, "tool", id))

\* The user types into the modal's input.
UninstallInput(text) ==
  /\ uninstallModal.display
  /\ uninstallModal.input # text
  /\ Apply(onUninstallInputChange(Cur, text))

\* Click on the modal's enabled confirm button.
ClickConfirm ==
  /\ uninstallModal.display
  /\ ~uninstallModal.disabled
  /\ Apply(confirmUninstall(Cur))

\* Click on the modal's cancel button.
ClickHide ==
  /\ uninstallModal.display
  /\ Apply(hideUninstallModal(Cur))

\* Exit codes of a child: success, failure, none (-1: killed by a signal).
ExitCodes == {0, 1, -1}

\* The start-up load and the checks it starts.
Loading ==
  \/ \E cfg \in ConfigSet : LoadConfig(cfg)
  \/ \E f \in DOMAIN checkAlls : \E p \in checkAlls[f].pending : CheckAllChecked(f, p)
  \/ \E p \in DOMAIN enriching, ok \in BOOLEAN : EnrichDone(p, ok)

\* The streaming operations: their clicks, their children, their re-checks.
Streaming ==
  \/ \E type \in Types, id \in ItemIds : ClickInstall(type, id)
  \/ \E type \in Types, id \in ItemIds : ClickCancel(type, id)
  \/ \E id \in ItemIds : ClickUpgrade(id)
  \/ \E type \in Types : ClickInstallAll(type)
  \/ \E slot \in Slots, code \in ExitCodes, took \in BOOLEAN : ProcClose(slot, code, took)
  \/ \E slot \in Slots : RecheckDone(slot)
  \/ \E slot \in Slots, ok \in BOOLEAN : RecheckEnriched(slot, ok)

Next ==
  \/ Loading
  \/ Streaming

\* The orchestrator: load, check, install, upgrade, cancel, batch.
Spec == Init /\ [][Next]_vars

\* The uninstall modal works on pendingUninstall, the modal's DOM and the
\* tool cards only, so it is explored over the load and its checks.
NextUninstall ==
  \/ Loading
  \/ \E id \in ItemIds : ClickUninstall(id)
  \/ \E text \in InputTexts : UninstallInput(text)
  \/ ClickConfirm
  \/ ClickHide

SpecUninstall == Init /\ [][NextUninstall]_vars

\* The terminal buffers: the orchestrator together with its children's output.
NextTerminal ==
  \/ Next
  \/ \E slot \in Slots, data \in Chunks, stream \in Streams : Output(slot, data, stream)

SpecTerminal == Init /\ [][NextTerminal]_vars

\* Loading and loading again on a machine that does not change.
NextReload ==
  \/ Loading
  \/ Reload

SpecReload == Init /\ [][NextReload]_vars

\* The terminal buffers on their own.  probe keeps, for each correlation id,
\* the lines that arrived since its buffer was last cleared, and counts the
\* events of the run.
TerminalIds == {"tool-a", "x"}

NoLines == [fn |-> "appendTerminalOutput", events |-> 0,
            received |-> [id \in TerminalIds |-> <<>>]]

Arrivals == IF probe = NoProbe THEN NoLines ELSE probe

\* The k-th maximal run of characters other than line breaks in `data`.
RunStarts(data) ==
  {i \in DOMAIN data : data[i] # "\n" /\ (i = 1 \/ data[i - 1] = "\n")}

RunEnd(data, i) ==
  CHOOSE j \in i..Len(data) :
    /\ \A k \in i..j : data[k] # "\n"
    /\ (j = Len(data) \/ data[j + 1] = "\n")

\* The lines a chunk delivers, each with its stream, in order.
Delivered(data, stream) ==
  LET starts == RunStarts(data)
      nth(k) == CHOOSE i \in starts : Cardinality({j \in starts : j < i}) = k - 1
  IN [k \in 1..Cardinality(starts) |->
        [text |-> SubSeq(data, nth(k), RunEnd(data, nth(k))), stream |-> stream]]

\* The stream callback delivers one chunk for `id`.
Receive(id, data, stream) ==
  /\ Arrivals.events < MaxEvents
  /\ terminalOutputs' = appendTerminalOutput(Cur, id, data, stream).terminalOutputs
  /\ probe' = [Arrivals EXCEPT !.events = @ + 1,
                               !.received[id] = @ \o Delivered(data, stream)]
  /\ UNCHANGED <<currentConfig, toolStates, appStates, toolCards, appCards,
                 activityLog, errors, pendingUninstall, uninstallModal, uncaught,
                 activeProcesses, ops, resolved, checkAlls, enriching, batch, sys,
                 spawned, loads>>

\* The chunks of a burst: one line each, short and long in turn.
BurstChunk(k) == IF k % 2 = 1 THEN <<"a", "\n">> ELSE <<"a", "a", "\n">>

\* The chunks numbered from..to of a burst arrive one after the other: the
\* first half, then, on the buffer the first half has left, the second.
RECURSIVE burst(_, _, _, _)
burst(S, id, from, to) ==
  IF from > to THEN S
  ELSE IF from = to THEN appendTerminalOutput(S, id, BurstChunk(from), "stderr")
  ELSE LET mid == (from + to) \div 2
           half == burst(S, id, from, mid)
       IN IF id \in DOMAIN half.terminalOutputs
            THEN burst(half, id, mid + 1, to)
            ELSE half

\* A child fills the buffer of `id`: n chunks of one line each arrive.
BurstSizes == {MAX_TERMINAL_LINES - 1, MAX_TERMINAL_LINES}

Burst(id, n) ==
  /\ Arrivals.events < MaxEvents
  /\ terminalOutputs' = burst(Cur, id, 1, n).terminalOutputs
  /\ probe' = [Arrivals EXCEPT !.events = @ + 1,
                               !.received[id] =
                                  @ \o [k \in 1..n |-> Delivered(BurstChunk(k), "stderr")[1]]]
  /\ UNCHANGED <<currentConfig, toolStates, appStates, toolCards, appCards,
                 activityLog, errors, pendingUninstall, uninstallModal, uncaught,
                 activeProcesses, ops, resolved, checkAlls, enriching, batch, sys,
                 spawned, loads>>

\* An action on `id` starts: its buffer is cleared.
Clear(id) ==
  /\ Arrivals.events < MaxEvents
  /\ terminalOutputs' = clearTerminalOutput(Cur, id).terminalOutputs
  /\ probe' = [Arrivals EXCEPT !.events = @ + 1, !.received[id] = <<>>]
  /\ UNCHANGED <<currentConfig, toolStates, appStates, toolCards, appCards,
                 activityLog, errors, pendingUninstall, uninstallModal, uncaught,
                 activeProcesses, ops, resolved, checkAlls, enriching, batch, sys,
                 spawned, loads>>

NextBuffer ==
  \/ \E id \in TerminalIds, data \in Chunks, stream \in Streams : Receive(id, data, stream)
  \/ \E id \in TerminalIds, n \in BurstSizes : Burst(id, n)
  \/ \E id \in TerminalIds : Clear(id)

SpecBuffer == Init /\ [][NextBuffer]_vars

\* The activity log on its own.  probe keeps every entry ever appended, most
\* recent first, and counts the events of the run.
NoEntries == [fn |-> "logActivity", events |-> 0, appended |-> <<>>]

Appended == IF probe = NoProbe THEN NoEntries ELSE probe

\* The entries the operations append: action, name, version.
LogEntries ==
  {<<"installed", <<"a">>, "v1">>, <<"installed", <<"a">>, None>>,
   <<"upgraded", <<"b">>, "v2">>, <<"failed", <<"install", "a">>, None>>}

\* One operation ends and appends its entry.
Log(e) ==
  /\ Appended.events < MaxLogged
  /\ activityLog' = logActivity(Cur, e[1], e[2], e[3]).activityLog
  /\ probe' = [Appended EXCEPT !.events = @ + 1,
                              !.appended = <<[action |-> e[1], name |-> e[2], version |-> e[3]]>> \o @]
  /\ UNCHANGED <<currentConfig, toolStates, appStates, toolCards, appCards,
                 terminalOutputs, errors, pendingUninstall, uninstallModal, uncaught,
                 activeProcesses, ops, resolved, checkAlls, enriching, batch, sys,
                 spawned, loads>>

\* The entries of a long session: an install that fails and one that
\* succeeds, in turn.
SessionEntry(k) ==
  IF k % 2 = 1 THEN <<"failed", <<"install", "b">>, None>> ELSE <<"installed", <<"b">>, "v1">>

\* The entries numbered from..to of a session are appended one after the
\* other: the first half, then, on the log the first half has left, the second.
RECURSIVE session(_, _, _)
session(S, from, to) ==
  IF from > to THEN S
  ELSE IF from = to
    THEN logActivity(S, SessionEntry(from)[1], SessionEntry(from)[2], SessionEntry(from)[3])
  ELSE LET mid == (from + to) \div 2
           half == session(S, from, mid)
       IN IF half.activityLog # <<>> THEN session(half, mid + 1, to) ELSE half

SessionSizes == {MAX_ACTIVITY - 1, MAX_ACTIVITY}

\* n operations end one after the other.
Session(n) ==
  /\ Appended.events < MaxLogged
  /\ activityLog' = session(Cur, 1, n).activityLog
  /\ probe' = [Appended EXCEPT !.events = @ + 1,
                              !.appended =
                                 [k \in 1..n |->
                                    [action |-> SessionEntry(n + 1 - k)[1],
                                     name |-> SessionEntry(n + 1 - k)[2],
                                     version |-> SessionEntry(n + 1 - k)[3]]] \o @]
  /\ UNCHANGED <<currentConfig, toolStates, appStates, toolCards, appCards,
                 terminalOutputs, errors, pendingUninstall, uninstallModal, uncaught,
                 activeProcesses, ops, resolved, checkAlls, enriching, batch, sys,
                 spawned, loads>>

NextLog ==
  \/ \E e \in LogEntries : Log(e)
  \/ \E n \in SessionSizes : Session(n)

SpecLog == Init /\ [][NextLog]_vars

\* Loading, loading again and resetting, with documents of every kind from
\* every source, on a machine that does not change.
NextLoad ==
  \/ \E source \in Sources, doc \in Documents : LoadDocument(source, doc)
  \/ ResetConfig
  \/ \E f \in DOMAIN checkAlls : \E p \in checkAlls[f].pending : CheckAllChecked(f, p)
  \/ \E p \in DOMAIN enriching, ok \in BOOLEAN : EnrichDone(p, ok)

SpecLoad == Init /\ [][NextLoad]_vars

\* Loads that succeed, one after another, and resets.
NextReplace ==
  \/ \E source \in Sources, doc \in ValidDocs : LoadDocument(source, doc)
  \/ ResetConfig
  \/ \E f \in DOMAIN checkAlls : \E p \in checkAlls[f].pending : CheckAllChecked(f, p)
  \/ \E p \in DOMAIN enriching, ok \in BOOLEAN : EnrichDone(p, ok)

SpecReplace == Init /\ [][NextReplace]_vars

\* The program's own state, which computing a pure function leaves alone.
program == <<currentConfig, toolStates, appStates, toolCards, appCards,
             terminalOutputs, activityLog, errors, pendingUninstall,
             uninstallModal, uncaught, activeProcesses, ops, resolved,
             checkAlls, enriching, batch, sys, spawned, loads>>

\* The install commands the derivation is tried on: every command of up to
\* MaxWords words over a vocabulary holding the words of the pattern, one
\* other flag, a package name and one foreign word.
Flags == {"--cask", "--force"}
Words == {"brew", "install", "pkg", "curl"} \cup Flags
Commands == UNION {[1..n -> Words] : n \in 1..MaxWords}
Verbs == {"uninstall", "upgrade"}

\* doUninstallTool / doUninstallApp / upgradeTool derive their command from
\* the install command of the item.
Derive(verb, installCmd) ==
  /\ probe = NoProbe
  /\ probe' = [fn |-> "deriveCommand", verb |-> verb, install |-> installCmd,
               command |-> deriveCommand(verb, installCmd)]
  /\ UNCHANGED program

NextDerive == \E verb \in Verbs, installCmd \in Commands : Derive(verb, installCmd)

SpecDerive == Init /\ [][NextDerive]_vars

\* ───────────────── the codebase-scanning companion ────────────────────
\* Phase 4 of the companion: the document it writes from the name, the
\* confirmed dependencies and the apps the user selected. With --minimal app
\* discovery is skipped, so no app is selected; when none is selected the
\* `apps:` key is left out of the YAML.
generate(name, deps, selected, minimal) ==
  LET chosen == IF minimal THEN <<>> ELSE selected
  IN Doc("object",
         IF chosen = <<>> THEN {"apps"} ELSE {},
         [name |-> name, dependencies |-> deps, apps |-> chosen])

ProjectNames == {"app", "chain", "My Project"}
Foundations == {<<ToolA>>, <<ToolA, ToolB("a")>>}
Selections == {<<>>, <<AppX("a")>>, <<AppX(None)>>}

\* The companion writes <project-name>.onboard.
Generate(name, deps, selected, minimal) ==
  /\ probe = NoProbe
  /\ probe' = [fn |-> "generate", minimal |-> minimal, selected |-> selected,
               doc |-> generate(name, deps, selected, minimal)]
  /\ UNCHANGED program

\* The user opens the generated file with the app.
OpenGenerated ==
  /\ probe # NoProbe
  /\ probe.fn = "generate"
  /\ LoadDocument("file", probe.doc)

NextGenerate ==
  \/ \E name \in ProjectNames, deps \in Foundations, selected \in Selections,
        minimal \in BOOLEAN : Generate(name, deps, selected, minimal)
  \/ OpenGenerated

SpecGenerate == Init /\ [][NextGenerate]_vars

\* ───────────────────── the command runners ────────────────────────────
\* A JavaScript value that is a number, a string or null.
Null == [type |-> "null", num |-> 0, text |-> ""]
Num(n) == [type |-> "number", num |-> n, text |-> ""]
Str(s) == [type |-> "string", num |-> 0, text |-> s]
Truthy(v) == (v.type = "number" /\ v.num # 0) \/ (v.type = "string" /\ v.text # "")

\* How a child ends: it exits with a code, is terminated by a signal, is
\* killed by exec's 30 s timeout, or cannot be spawned.
Exited(n) == [kind |-> "exit", code |-> n, errno |-> ""]
Signalled == [kind |-> "signal", code |-> 0, errno |-> ""]
TimedOut == [kind |-> "timeout", code |-> 0, errno |-> ""]
SpawnFailed(errno) == [kind |-> "spawn-error", code |-> 0, errno |-> errno]

MaxExit == 2
Endings ==
  {Exited(n) : n \in 0..MaxExit} \cup {Signalled, TimedOut}
    \cup {SpawnFailed(e) : e \in {"ENOENT", "EAGAIN"}}

\* err.message of a spawn failure.
Message(errno) == IF errno = "ENOENT" THEN "spawn /bin/bash ENOENT" ELSE "spawn /bin/bash EAGAIN"

\* What the child wrote, and String.prototype.trim of it.
Texts == {"", "out", " out\n"}
trim(text) == IF text = " out\n" THEN "out" ELSE text

\* The `error` exec passes to its callback: null after exit code 0; else an
\* Error whose code is the exit code, null when the child was killed (by a
\* signal or by the timeout), or the errno name when the spawn failed.
execError(ending) ==
  CASE ending.kind = "exit" ->
         [present |-> ending.code # 0, code |-> Num(ending.code)]
    [] ending.kind \in {"signal", "timeout"} -> [present |-> TRUE, code |-> Null]
    [] OTHER -> [present |-> TRUE, code |-> Str(ending.errno)]

\* runCommand (main process): the promise is resolved, never rejected.
runCommand(ending, stdout, stderr) ==
  LET error == execError(ending)
  IN [settled |-> "resolved",
      stdout |-> trim(stdout),
      stderr |-> trim(stderr),
      exitCode |-> IF error.present
                     THEN (IF Truthy(error.code) THEN error.code ELSE Num(1))
                     ELSE Num(0),
      succeeded |-> ~error.present,
      cancelled |-> FALSE]

\* shell:runStreaming and shell:runStreamingWithId: the first of the
\* 'close' and 'error' handlers to run resolves the promise; `cancelled` is
\* the flag of the registry entry (absent, so falsy, for runStreaming).
runStreaming(ending, stdout, stderr, cancelled) ==
  IF ending.kind = "spawn-error"
    THEN [settled |-> "resolved", stdout |-> stdout, stderr |-> Message(ending.errno),
          exitCode |-> Num(1), succeeded |-> FALSE, cancelled |-> FALSE]
    ELSE LET code == IF ending.kind = "exit" THEN Num(ending.code) ELSE Null
         IN [settled |-> "resolved", stdout |-> trim(stdout), stderr |-> trim(stderr),
             exitCode |-> code, succeeded |-> (code = Num(0)), cancelled |-> cancelled]

Runners == {"runCommand", "runStreaming", "runStreamingWithId"}

\* A command is run to its end by one of the runners. Only exec has a
\* timeout; a child that was not spawned writes nothing; only the runner
\* with an id can be cancelled.
Run(runner, ending, stdout, stderr, cancelled) ==
  /\ probe = NoProbe
  /\ ending.kind = "timeout" => runner = "runCommand"
  /\ ending.kind = "spawn-error" => (stdout = "" /\ stderr = "")
  /\ cancelled => runner = "runStreamingWithId"
  /\ probe' = [fn |-> runner, ending |-> ending,
               result |-> IF runner = "runCommand"
                            THEN runCommand(ending, stdout, stderr)
                            ELSE runStreaming(ending, stdout, stderr, cancelled)]
  /\ UNCHANGED program

NextRun ==
  \E runner \in Runners, ending \in Endings, stdout \in Texts, stderr \in Texts,
     cancelled \in BOOLEAN : Run(runner, ending, stdout, stderr, cancelled)

SpecRun == Init /\ [][NextRun]_vars

\* ───────────────── a second configuration is opened ────────────────────
\* Another configuration file is opened while the first is loaded, whatever
\* is under way.
MaxReloads == 1

OpenAnother(cfg) ==
  /\ currentConfig # NoConfig
  /\ loads < MaxReloads
  /\ Apply([loadConfig(Cur, cfg) EXCEPT !.loads = @ + 1])

\* The configuration opened first and the one opened after it, which has
\* none of the first one's tools.
FirstConfig == [name |-> "app", dependencies |-> <<ToolA>>, apps |-> <<AppX("a")>>]
OtherConfig == [name |-> "dangling", dependencies |-> <<ToolB("ghost")>>, apps |-> <<AppX(None)>>]

NextSwitch ==
  \/ LoadConfig(FirstConfig)
  \/ OpenAnother(OtherConfig)
  \/ \E f \in DOMAIN checkAlls : \E p \in checkAlls[f].pending : CheckAllChecked(f, p)
  \/ \E p \in DOMAIN enriching, ok \in BOOLEAN : EnrichDone(p, ok)
  \/ Streaming

\* The orchestrator with a second configuration opened at any moment.
SpecSwitch == Init /\ [][NextSwitch]_vars

\* ─────────────── the streaming operations and their output ────────────
\* The run is watched from its start.
Watch ==
  /\ probe = NoProbe
  /\ currentConfig = NoConfig
  /\ probe' = [fn |-> "overlap", slots |-> {}]
  /\ UNCHANGED program

\* What child number `slot` writes: a line of `slot` characters, so that a
\* line tells which child wrote it.
LineOf(slot) == [i \in 1..slot |-> "a"]

\* The child of `slot` writes its line; shell:streamOutput carries it under
\* the child's id and the stream callback appends it.
Emit(slot, stream) ==
  /\ probe # NoProbe
  /\ ops[slot].kind # "free"
  /\ ops[slot].pc = "stream"
  /\ LET tid == TerminalId(ops[slot].type, ops[slot].item.id)
     IN /\ Len(Get(terminalOutputs, tid, [lines |-> <<>>]).lines) < MaxOut
        /\ Apply(appendTerminalOutput(Cur, tid, LineOf(slot) \o <<"\n">>, stream))

\* A configuration of two tools, the second installed with brew (so that
\* it can be upgraded).
StreamConfig == [name |-> "chain", dependencies |-> <<ToolA, ToolB("a")>>, apps |-> <<>>]

\* The clicks on the cards, the children and what they write (on stdout:
\* the stream of a chunk plays no part in where it goes).
NextStream ==
  \/ Watch
  \/ probe # NoProbe /\ LoadConfig(StreamConfig)
  \/ \E f \in DOMAIN checkAlls : \E p \in checkAlls[f].pending : CheckAllChecked(f, p)
  \/ \E p \in DOMAIN enriching, ok \in BOOLEAN : EnrichDone(p, ok)
  \/ \E type \in Types, id \in ItemIds : ClickInstall(type, id)
  \/ \E type \in Types, id \in ItemIds : ClickCancel(type, id)
  \/ \E id \in ItemIds : ClickUpgrade(id)
  \/ \E slot \in Slots, code \in ExitCodes, took \in BOOLEAN : ProcClose(slot, code, took)
  \/ \E slot \in Slots : RecheckDone(slot)
  \/ \E slot \in Slots, ok \in BOOLEAN : RecheckEnriched(slot, ok)
  \/ \E slot \in Slots : Emit(slot, "stdout")

SpecStream == Init /\ [][NextStream]_vars

\* ───────────────── the legacy window and its bridge ───────────────────
\* The legacy window (terminal-preload.js) on the legacy bridge (main.js):
\* shell:runStreaming sends chunks that carry no id, and streamRouter hands
\* each to currentStreamCallback, the one callback set last.  The state is
\* kept in probe: the panel the callback writes to (None after
\* clearStreamCallback), the panels whose command runs, and for each panel
\* the commands whose chunks it shows.
LegacyPanels == {"homebrew", "node", "gh"}
MaxPanelChunks == 2

LegacyInit ==
  [fn |-> "legacy", callback |-> None, running |-> {},
   output |-> [p \in LegacyPanels |-> <<>>]]

Legacy == IF probe = NoProbe THEN LegacyInit ELSE probe

\* setStreamCallback(cb) / clearStreamCallback()
setStreamCallback(L, panel) == [L EXCEPT !.callback = panel]
clearStreamCallback(L) == [L EXCEPT !.callback = None]

\* streamRouter: `if (currentStreamCallback) currentStreamCallback(data)`;
\* the callback appends the chunk to the panel it was made for.
streamRouter(L, producer) ==
  IF L.callback = None THEN L
  ELSE [L EXCEPT !.output[L.callback] = Append(@, producer)]

\* installTool / installGhCli up to the await: the panel is reset to the
\* command line, the callback is set, the command is spawned.  A tool whose
\* install runs shows a spinner, not its button.
LegacyInstall(panel) ==
  /\ Legacy.fn = "legacy"
  /\ panel \notin Legacy.running
  /\ probe' = [setStreamCallback(Legacy, panel) EXCEPT !.running = @ \cup {panel},
                                                        !.output[panel] = <<>>]
  /\ UNCHANGED program

\* The command of `panel` writes a chunk.
LegacyChunk(panel) ==
  /\ probe.fn = "legacy"
  /\ panel \in probe.running
  /\ \A p \in LegacyPanels : Len(probe.output[p]) < MaxPanelChunks
  /\ probe' = streamRouter(probe, panel)
  /\ UNCHANGED program

\* The command of `panel` exits: runStreaming resolves and the installer
\* clears the callback.
LegacyClose(panel) ==
  /\ probe.fn = "legacy"
  /\ panel \in probe.running
  /\ probe' = [clearStreamCallback(probe) EXCEPT !.running = @ \ {panel}]
  /\ UNCHANGED program

NextLegacy ==
  \E panel \in LegacyPanels :
    \/ LegacyInstall(panel)
    \/ LegacyChunk(panel)
    \/ LegacyClose(panel)

SpecLegacy == Init /\ [][NextLegacy]_vars

\* ───────────────────────── the status line ─────────────────────────────
\* statusQueue, statusTimeout (the pending timer: the 2.5 s one that shows
\* the next message, or the 2 s one that fades back to Ready) and the text
\* of #status-text.  `accepted` and `shown` record the messages queued and
\* displayed since the queue was last discarded.
MaxQueued == 3
Ready == <<"Ready">>

StatusInit ==
  [fn |-> "status", statusQueue |-> <<>>, statusTimeout |-> None,
   text |-> Ready, accepted |-> <<>>, shown |-> <<>>, queued |-> 0]

Status == IF probe = NoProbe THEN StatusInit ELSE probe

\* The message logActivity builds from its arguments (the switch).
statusMessage(action, name, version) ==
  IF action = "installed"
    THEN <<"Installed", name>> \o (IF version # None THEN <<"v" \o version>> ELSE <<>>)
  ELSE IF action = "uninstalled" THEN <<"Uninstalled", name>>
  ELSE IF action = "upgraded"
    THEN <<"Upgraded", name>> \o (IF version # None THEN <<"to v" \o version>> ELSE <<>>)
  ELSE IF action = "failed" THEN <<"Failed to", name>>
  ELSE <<>>

setStatusDirect(W, text) == [W EXCEPT !.text = text]

\* processStatusQueue: nothing while a timer is pending; an empty queue
\* arms the fade timer; else the head is shown and the next timer armed.
processStatusQueue(W) ==
  IF W.statusTimeout # None THEN W
  ELSE IF W.statusQueue = <<>> THEN [W EXCEPT !.statusTimeout = "fade"]
  ELSE [setStatusDirect(W, Head(W.statusQueue))
          EXCEPT !.statusQueue = Tail(@),
                 !.shown = Append(@, Head(W.statusQueue)),
                 !.statusTimeout = "next"]

\* The callback of the fade timer: Ready, and the timer is forgotten.
fade(W) == [setStatusDirect(W, Ready) EXCEPT !.statusTimeout = None]

\* The callback of the pending timer.
statusTimer(W) ==
  IF W.statusTimeout = "fade" THEN fade(W)
  ELSE processStatusQueue([W EXCEPT !.statusTimeout = None])

queueStatus(W, message) ==
  processStatusQueue([W EXCEPT !.statusQueue = Append(@, message),
                               !.accepted = Append(@, message)])

\* setStatus: the timer is cleared and the queue discarded.
setStatus(W, text) ==
  [W EXCEPT !.statusTimeout = None, !.statusQueue = <<>>, !.text = text,
            !.accepted = <<>>, !.shown = <<>>]

\* logActivity queues the message of an entry.
StatusLog(action, version) ==
  /\ Status.fn = "status"
  /\ Status.queued < MaxQueued
  /\ probe' = [queueStatus(Status, statusMessage(action, "a", version))
                 EXCEPT !.queued = @ + 1]
  /\ UNCHANGED program

\* The pending timer fires.
StatusTimer ==
  /\ probe.fn = "status"
  /\ probe.statusTimeout # None
  /\ probe' = statusTimer(probe)
  /\ UNCHANGED program

\* A function of the renderer sets the status directly.
StatusSet ==
  /\ probe.fn = "status"
  /\ probe.text # <<"Checking...">>
  /\ probe' = setStatus(probe, <<"Checking...">>)
  /\ UNCHANGED program

NextStatus ==
  \/ \E action \in {"installed", "uninstalled", "upgraded", "failed"},
        version \in {None, "1"} : StatusLog(action, version)
  \/ StatusTimer
  \/ StatusSet

SpecStatus == Init /\ [][NextStatus]_vars

\* ───────────────────────── the Swift app's cells ───────────────────────
\* One CellViewModel per cell of the loaded file.  `state` is its CellState
\* (completed carries the ShellResult's exitCode), `tasks` the Tasks the Run
\* button has created that have not started yet, `procs` the commands
\* running, `throwing` the runs whose process.run() threw and whose
\* continuation has not resumed yet, `starts` the commands started so far.
Cells == {"one", "two"}
MaxClicks == 3
TerminationStatuses == {0, 1}

Idle == [tag |-> "idle", exitCode |-> 0]
Running == [tag |-> "running", exitCode |-> 0]
Completed(exitCode) == [tag |-> "completed", exitCode |-> exitCode]
Failed == [tag |-> "failed", exitCode |-> 0]

\* ShellResult.succeeded
succeeded(result) == result.exitCode = 0

CellsInit ==
  [fn |-> "cells", state |-> [c \in Cells |-> Idle],
   tasks |-> [c \in Cells |-> 0], procs |-> [c \in Cells |-> 0],
   throwing |-> [c \in Cells |-> 0], starts |-> [c \in Cells |-> 0],
   clicks |-> 0]

CellModels == IF probe = NoProbe THEN CellsInit ELSE probe

\* statusOrButton: the Run button is part of the view in idle only; its
\* action creates a Task that will call viewModel.run().
runButton(K, c) == [K EXCEPT !.tasks[c] = @ + 1, !.clicks = @ + 1]

\* CellViewModel.run up to its await: state = .running, then
\* ShellRunner.run launches /bin/bash or process.run() throws.
run(K, c, launched) ==
  LET K1 == [K EXCEPT !.tasks[c] = @ - 1, !.state[c] = Running]
  IN IF launched
       THEN [K1 EXCEPT !.procs[c] = @ + 1, !.starts[c] = @ + 1]
       ELSE [K1 EXCEPT !.throwing[c] = @ + 1]

\* The terminationHandler resumes the continuation with the result and run
\* continues: completed, whatever result.succeeded is.
terminated(K, c, exitCode) ==
  [K EXCEPT !.procs[c] = @ - 1,
            !.state[c] = IF succeeded(Completed(exitCode))
                           THEN Completed(exitCode) ELSE Completed(exitCode)]

\* The continuation resumes throwing and run continues in its catch.
caught(K, c) == [K EXCEPT !.throwing[c] = @ - 1, !.state[c] = Failed]

\* Click on the Run button the view shows for the cell.
CellClick(c) ==
  /\ CellModels.fn = "cells"
  /\ CellModels.state[c].tag = "idle"
  /\ CellModels.clicks < MaxClicks
  /\ probe' = runButton(CellModels, c)
  /\ UNCHANGED program

\* A Task created by the button starts on the main actor.
CellRun(c, launched) ==
  /\ probe.fn = "cells"
  /\ probe.tasks[c] > 0
  /\ probe' = run(probe, c, launched)
  /\ UNCHANGED program

\* A command exits.
CellExit(c, exitCode) ==
  /\ probe.fn = "cells"
  /\ probe.procs[c] > 0
  /\ probe' = terminated(probe, c, exitCode)
  /\ UNCHANGED program

\* A run whose process could not be started reaches its catch.
CellCatch(c) ==
  /\ probe.fn = "cells"
  /\ probe.throwing[c] > 0
  /\ probe' = caught(probe, c)
  /\ UNCHANGED program

NextCells ==
  \E c \in Cells :
    \/ CellClick(c)
    \/ \E launched \in BOOLEAN : CellRun(c, launched)
    \/ \E exitCode \in TerminationStatuses : CellExit(c, exitCode)
    \/ CellCatch(c)

SpecCells == Init /\ [][NextCells]_vars

\* ───────────────────────── the config history ──────────────────────────
\* localStorage's 'configHistory' (not set until first written, then the
\* JSON text: one <<path, name, timestamp>> per entry), the clock, and `loaded`,
\* the sources of the successful loads of the run, most recent first.  A
\* source is the sequence of the segments its '/' separate.
MaxSaved == 3

Bundled == <<"bundled">>
PathOf(k) == <<"configs", ToString(k)>>

HistorySources ==
  {Bundled, <<"bundled:example">>, <<"https:", "", "host", "team.onboard">>,
   PathOf(1), PathOf(2), PathOf(MAX_HISTORY + 1)}

HistoryInit ==
  [fn |-> "history", configHistory |-> [set |-> FALSE, text |-> <<>>], now |-> 0, loaded |-> <<>>, events |-> 0]

History == IF probe = NoProbe THEN HistoryInit ELSE probe

\* JSON.stringify / JSON.parse of the list of entries.
stringify(list) ==
  [i \in DOMAIN list |-> <<list[i].path, list[i].name, list[i].timestamp>>]
parse(text) ==
  [i \in DOMAIN text |-> [path |-> text[i][1], name |-> text[i][2], timestamp |-> text[i][3]]]

\* getConfigHistory: the parsed item, [] when there is none.
getConfigHistory(W) ==
  IF ~W.configHistory.set THEN <<>> ELSE parse(W.configHistory.text)

\* localStorage.setItem('configHistory', text)
setItem(W, text) == [W EXCEPT !.configHistory = [set |-> TRUE, text |-> text]]

\* list.slice(0, n)
slice(list, n) == IF Len(list) <= n THEN list ELSE SubSeq(list, 1, n)

\* A history that keeps the earlier entry of a path loaded again.
saveToConfigHistoryKeeping(W, source, name) ==
  IF source = <<>> \/ source = Bundled THEN W
  ELSE LET entry == [path |-> source,
                     name |-> IF name # None THEN name ELSE source[Len(source)],
                     timestamp |-> W.now]
       IN setItem(W, stringify(slice(<<entry>> \o getConfigHistory(W), MAX_HISTORY)))

\* saveToConfigHistory: nothing for no source and for 'bundled'; else the
\* entries of the same path are filtered out, the new entry is put first
\* and the first 10 are stored.
saveToConfigHistory(W, source, name) ==
  IF source = <<>> \/ source = Bundled THEN W
  ELSE LET history == getConfigHistory(W)
           filtered == SelectSeq(history, LAMBDA h : h.path # source)
           entry == [path |-> source,
                     name |-> IF name # None THEN name ELSE source[Len(source)],
                     timestamp |-> W.now]
       IN setItem(W, stringify(slice(<<entry>> \o filtered, MAX_HISTORY)))

\* loadConfig(source) as far as the history goes: a load that fails returns
\* before line 100; a successful one saves the source with the name of the
\* configuration.  The clock advances.
loadSaving(W, source, name, succeeds) ==
  LET W1 == [W EXCEPT !.now = @ + 1]
  IN IF succeeds
       THEN [saveToConfigHistory(W1, source, name) EXCEPT !.loaded = <<source>> \o @]
       ELSE W1

\* The configurations at PathOf(from) .. PathOf(to) are loaded one after the other.
RECURSIVE loadEach(_, _, _)
loadEach(W, from, to) ==
  IF from > to THEN W
  ELSE IF from = to THEN loadSaving(W, PathOf(from), None, TRUE)
  ELSE LET mid == (from + to) \div 2
           half == loadEach(W, from, mid)
       IN IF half.now >= 0 THEN loadEach(half, mid + 1, to) ELSE half

\* One load gets its result.
HistoryLoad(source, name, succeeds) ==
  /\ History.fn = "history"
  /\ History.events < MaxSaved
  /\ probe' = [loadSaving(History, source, name, succeeds) EXCEPT !.events = @ + 1]
  /\ UNCHANGED program

\* n files are opened one after the other.
HistorySession(n) ==
  /\ History.fn = "history"
  /\ History.events < MaxSaved
  /\ probe' = [loadEach(History, 1, n) EXCEPT !.events = @ + 1]
  /\ UNCHANGED program

NextHistory ==
  \/ \E source \in HistorySources, name \in {None, "team"}, succeeds \in BOOLEAN :
       HistoryLoad(source, name, succeeds)
  \/ \E n \in {MAX_HISTORY - 1, MAX_HISTORY} : HistorySession(n)

SpecHistory == Init /\ [][NextHistory]_vars

\* ═════════════════════════ properties ═════════════════════════════════
\* store[id]?.installed
Installed(store, id) == Get(store, id, Undefined).installed

\* The child numbered s is spawned in this step.
SpawnedNow(s) == ops[s].kind = "free" /\ ops'[s].kind # "free"

\* The child numbered s exits in this step.
ClosedNow(s) == ops[s].kind # "free" /\ ops[s].pc = "stream" /\ resolved'.child = s

\* The operation of child s returns in this step.
FinishedNow(s) == ops[s].kind # "free" /\ ops'[s].kind = "free"

\* toolStates[id] / appStates[id] in the current state.
ItemState(type, id) == StateOf(Cur, type, id)

\* toolStates[id] / appStates[id] in the next state.
ItemStateNext(type, id) ==
  Get(IF type = "tool" THEN toolStates' ELSE appStates', id, Undefined)

\* The child numbered s is running.
Live(s) == ops[s].kind # "free" /\ ops[s].pc = "stream"

\* The correlation id the child numbered s was spawned under.
CorrelationId(s) == TerminalId(ops[s].type, ops[s].item.id)

\* The items of the loaded configuration, each with its type.
ConfigItems ==
  {<<"tool", dependencies(currentConfig)[i]>> : i \in DOMAIN dependencies(currentConfig)}
    \cup {<<"app", apps(currentConfig)[i]>> : i \in DOMAIN apps(currentConfig)}

\* isEligible(item, stateStore) of the specification: no depends_on, or the
\* state store records the depends_on target as installed.
isEligible(tools, appStore, item) ==
  \/ item.depends_on = None
  \/ Installed(tools, item.depends_on)
  \/ Installed(appStore, item.depends_on)

\* C1: whenever a batch pass (installAllDeps, installAllApps) spawns the
\* install process of an item with depends_on = X, the state store records
\* X as installed at that moment.
C1_BatchSpawnsAfterDependency ==
  [][\A s \in Slots :
       (SpawnedNow(s) /\ ops'[s].waiter # None /\ ops'[s].item.depends_on # None)
         => \/ Installed(toolStates', ops'[s].item.depends_on)
            \/ Installed(appStates', ops'[s].item.depends_on)]_vars

\* A batch pass has installed a tool, logged it, and is now awaiting the
\* install it spawned for the tool that depends on it.
C1_Witness ==
  \E s \in Slots :
    /\ ops[s].kind = "install"
    /\ ops[s].pc = "stream"
    /\ ops[s].waiter = "tool"
    /\ ops[s].item.depends_on # None
    /\ activityLog # <<>>
    /\ activityLog[1].action = "installed"
    /\ activityLog[1].name = <<ops[s].item.depends_on>>

\* C2: install(item) called (by a click) on an item whose depends_on target
\* is not recorded as installed spawns no process.
C2_IneligibleInstallSpawnsNothing ==
  [][\A s \in Slots :
       (SpawnedNow(s) /\ ops'[s].kind = "install" /\ ops'[s].waiter = None)
         => isEligible(toolStates, appStates, ops'[s].item)]_vars

\* C3: in every reachable state and for every item, the gate of the Install
\* affordance (renderAction) and the skip test of the batch passes both
\* compute isEligible, and so agree.
C3_GateAndBatchComputeEligibility ==
  \A p \in ConfigItems :
    /\ ~NeedsDependency(Cur, p[2], p[1]) <=> isEligible(toolStates, appStates, p[2])
    /\ DependencyMet(Cur, p[1], p[2]) <=> isEligible(toolStates, appStates, p[2])

\* C4: when a streaming install that was cancelled (its child marked and
\* signalled by cancelProcess) completes, its result carries cancelled =
\* true, the item's installed flag is left as it was, installing is false,
\* and no re-check is run.
C4_CancelledInstallLeavesItemAlone ==
  [][\A s \in Slots :
       (ClosedNow(s) /\ ops[s].kind = "install" /\ ops[s].signalled)
         => /\ resolved'.cancelled
            /\ ItemStateNext(ops[s].type, ops[s].item.id).installed
                 = ItemState(ops[s].type, ops[s].item.id).installed
            /\ ~ItemStateNext(ops[s].type, ops[s].item.id).installing
            /\ FinishedNow(s)]_vars

\* C5: for every streaming action (install, uninstall, upgrade), a result
\* with cancelled = true appends no activity entry, shows no error
\* notification and starts no re-check.
C5_CancelledIsNoFailure ==
  [][\A s \in Slots :
       (ClosedNow(s) /\ resolved'.cancelled)
         => /\ activityLog' = activityLog
            /\ errors' = errors
            /\ FinishedNow(s)]_vars

\* C6: at any time at most one streaming process is live per correlation id.
C6_OneLiveProcessPerId ==
  \A s, t \in Slots :
    (s # t /\ Live(s) /\ Live(t)) => CorrelationId(s) # CorrelationId(t)

\* C7: a process that cancelProcess found registered is marked cancelled and
\* signalled, and the result its completion resolves carries cancelled = true.
C7_SignalledProcessResolvesCancelled ==
  [][/\ \A id \in DOMAIN activeProcesses \cap DOMAIN activeProcesses' :
          (~activeProcesses[id].cancelled /\ activeProcesses'[id].cancelled)
            => /\ activeProcesses'[id].child = activeProcesses[id].child
               /\ ops'[activeProcesses[id].child].signalled
     /\ \A s \in Slots :
          (ClosedNow(s) /\ ops[s].signalled) => resolved'.cancelled]_vars

C9_FailureKeepsCheckedState ==
  [][\A s \in Slots :
       /\ SpawnedNow(s)
            => ItemStateNext(ops'[s].type, ops'[s].item.id)
                 = [ItemState(ops'[s].type, ops'[s].item.id) EXCEPT !.installing = TRUE]
       /\ (ClosedNow(s) /\ ~resolved'.succeeded /\ ~resolved'.cancelled)
            => LET type == ops[s].type
                   id == ops[s].item.id
               IN /\ ItemStateNext(type, id) = [ItemState(type, id) EXCEPT !.installing = FALSE]
                  /\ errors' = Append(errors, [message |-> <<"Failed to", ops[s].kind, id>>,
                                               details |-> "stderr"])
                  /\ activityLog' = <<[action |-> "failed", name |-> <<ops[s].kind, id>>,
                                       version |-> None]>> \o activityLog
                  /\ FinishedNow(s)
                  /\ uncaught' = uncaught]_vars

\* A streaming action has just failed: its child exited non-zero without
\* having been cancelled, and the failure is the newest activity entry.
C9_Witness ==
  /\ resolved.child # 0
  /\ ~resolved.succeeded
  /\ ~resolved.cancelled
  /\ activityLog # <<>>
  /\ activityLog[1].action = "failed"
  /\ errors # <<>>

\* C10: no operation of the orchestrator ends in an uncaught exception or a
\* rejected promise.
C10_NothingThrown == uncaught = {}

\* C11: confirmUninstall gets past its guard (and so reaches the lines that
\* spawn the uninstall command) only while the modal is open for an item and
\* the confirmation phrase 'delete', in any case, is typed in; an uninstall
\* command is spawned for that item only; and hiding the modal without
\* confirming spawns nothing and changes no item state.
C11_UninstallOnlyAfterTypedConfirmation ==
  [][/\ (uncaught' # uncaught \/ \E s \in Slots : SpawnedNow(s) /\ ops'[s].kind = "uninstall")
          => /\ uninstallModal.display
             /\ pendingUninstall # NoPending
             /\ uninstallModal.input \in {"delete", "DELETE"}
             /\ \A s \in Slots :
                  (SpawnedNow(s) /\ ops'[s].kind = "uninstall")
                    => /\ ops'[s].type = pendingUninstall.type
                       /\ ops'[s].item.id = pendingUninstall.id
     /\ (uninstallModal.display /\ ~uninstallModal'.display /\ uncaught' = uncaught)
          => UNCHANGED <<toolStates, appStates, ops, spawned, activeProcesses,
                         activityLog, errors>>]_vars

\* The confirmation typed in upper case was accepted: the modal is closed
\* and confirmUninstall went past its guard.
C11_Witness ==
  /\ uncaught # {}
  /\ ~uninstallModal.display
  /\ uninstallModal.input = "DELETE"

\* An install command of the shape `brew install [--cask] <package>`.
IsPackage(word) == word \notin Flags

BrewShape(cmd) ==
  \/ Len(cmd) = 3 /\ cmd[1] = "brew" /\ cmd[2] = "install" /\ IsPackage(cmd[3])
  \/ /\ Len(cmd) = 4 /\ cmd[1] = "brew" /\ cmd[2] = "install"
     /\ cmd[3] = "--cask" /\ IsPackage(cmd[4])

\* C12: the command derived from an install command of the shape
\* `brew install [--cask] <package>` is that command with the verb replaced,
\* and from an install command of any other shape no command is derived (the
\* operation then reports its error and spawns nothing).  Violated by
\* `brew install --force pkg`, from which `brew upgrade --force` is derived.
C12_DerivedFromBrewShapeOnly ==
  probe # NoProbe =>
    IF BrewShape(probe.install)
      THEN probe.command = <<"brew", probe.verb>> \o Tail(Tail(probe.install))
      ELSE probe.command = NoCommand

\* The operation of child s starts its re-check (checkTool / checkApp) in this step.
CheckStartsNow(s) ==
  /\ ops[s].kind # "free" /\ ops[s].pc = "stream"
  /\ ops'[s].kind # "free" /\ ops'[s].pc = "check"

\* The check command of that re-check returns in this step.
CheckReturnsNow(s) ==
  /\ ops[s].kind # "free" /\ ops[s].pc = "check"
  /\ (ops'[s].kind = "free" \/ ops'[s].pc # "check")

\* C13: checkTool / checkApp records the item as checking (not installed) when
\* it starts; when its check command returns, the item is checked with
\* installed = the command's success, and a failing check shows no error,
\* throws nothing and appends no 'failed' activity entry (the only entry that
\* may appear is the success entry of the operation that awaited the check).
C13_CheckOneRecordsCommandSuccess ==
  [][\A s \in Slots :
       /\ CheckStartsNow(s)
            => /\ ItemStateNext(ops[s].type, ops[s].item.id).status = "checking"
               /\ ~ItemStateNext(ops[s].type, ops[s].item.id).installed
       /\ CheckReturnsNow(s)
            => /\ ItemStateNext(ops[s].type, ops[s].item.id).status = "checked"
               /\ ItemStateNext(ops[s].type, ops[s].item.id).installed
                    = (sys[ops[s].item.id] # "missing")
               /\ errors' = errors
               /\ uncaught' = uncaught
               /\ \/ activityLog' = activityLog
                  \/ /\ Tail(activityLog') = activityLog
                     /\ Head(activityLog').action # "failed"]_vars

\* An install that exited 0 without installing anything: its re-check failed,
\* the item is checked and not installed, and no error was shown.
C13_Witness ==
  \E c \in ConfigItems :
    /\ activityLog # <<>>
    /\ Head(activityLog).action = "installed"
    /\ Head(activityLog).name = <<c[2].id>>
    /\ ItemState(c[1], c[2].id).status = "checked"
    /\ ~ItemState(c[1], c[2].id).installed
    /\ sys[c[2].id] = "missing"
    /\ errors = <<>>

\* Phase 2 of the checkAllTools frame f starts in this step: its last Phase 1
\* check returns and the frame is gone.
PhaseTwoStartsNow(f) ==
  /\ f \in DOMAIN checkAlls
  /\ Len(checkAlls') < Len(checkAlls)

\* The enrichments of item p in flight.
Enrichments(store, p) == Get(store, p, 0)

RecheckPending(p) ==
  \E s \in Slots : /\ ops'[s].kind # "free" /\ ops'[s].pc = "check"
                   /\ ops'[s].type = p[1] /\ ops'[s].item.id = p[2].id

C15_CheckAllIdempotent ==
  (currentConfig # NoConfig /\ checkAlls = <<>>)
    => \A c \in ConfigItems :
         /\ ItemState(c[1], c[2].id).status = "checked"
         /\ ItemState(c[1], c[2].id).installed = (sys[c[2].id] # "missing")

\* A second pass is over while an enrichment of the first and one of the
\* second are still in flight for the same item.
C15_Witness ==
  /\ currentConfig # NoConfig
  /\ checkAlls = <<>>
  /\ \E p \in DOMAIN enriching : enriching[p] = 2

\* A background enrichment of item p returns in this step.
EnrichmentReturnsNow(p) == Enrichments(enriching', p) < Enrichments(enriching, p)

\* The enrichment of the re-check of child s returns in this step.
RecheckEnrichmentReturnsNow(s) ==
  /\ ops[s].kind # "free" /\ ops[s].pc = "enrich"
  /\ (ops'[s].kind = "free" \/ ops'[s].pc # "enrich")

\* The fields of an item an enrichment has no business with.
Primary(st) == <<st.status, st.installed, st.installing>>

\* The version fields an enrichment may leave: what the machine reports, or
\* null, null, false when its commands failed.
VersionFieldsOk(type, item) ==
  LET st == ItemStateNext(type, item.id)
  IN IF type = "tool"
       THEN \E ok \in BOOLEAN :
              <<st.version, st.latestVersion, st.hasUpdate>>
                = <<getToolVersion(item, sys[item.id], ok).version,
                    getToolVersion(item, sys[item.id], ok).latestVersion,
                    getToolVersion(item, sys[item.id], ok).hasUpdate>>
       ELSE \E ok \in BOOLEAN : st.version = getAppVersion(item, sys[item.id], ok)

\* C16: a returning enrichment leaves status, installed and installing of its
\* item as they were, writes the version fields the machine reports or, when
\* its commands failed, null, and shows no error; a background enrichment
\* changes neither the state of any other item, nor the activity log.
C16_EnrichmentWritesVersionFieldsOnly ==
  [][/\ \A p \in DOMAIN enriching :
          EnrichmentReturnsNow(p)
            => /\ Primary(ItemStateNext(p[1], p[2].id)) = Primary(ItemState(p[1], p[2].id))
               /\ VersionFieldsOk(p[1], p[2])
               /\ \A c \in ConfigItems \ {p} : ItemStateNext(c[1], c[2].id) = ItemState(c[1], c[2].id)
               /\ DOMAIN toolStates' = DOMAIN toolStates
               /\ DOMAIN appStates' = DOMAIN appStates
               /\ errors' = errors /\ uncaught' = uncaught /\ activityLog' = activityLog
     /\ \A s \in Slots :
          RecheckEnrichmentReturnsNow(s)
            => /\ Primary(ItemStateNext(ops[s].type, ops[s].item.id))
                    = Primary(ItemState(ops[s].type, ops[s].item.id))
               /\ VersionFieldsOk(ops[s].type, ops[s].item)
               /\ errors' = errors /\ uncaught' = uncaught]_vars

\* Every enrichment has returned and an installed item has no version: the
\* commands of its enrichment failed, and no error was shown.
C16_Witness ==
  /\ checkAlls = <<>>
  /\ enriching = EmptyObject
  /\ \A s \in Slots : ops[s].kind = "free"
  /\ errors = <<>>
  /\ \E c \in ConfigItems :
       /\ ItemState(c[1], c[2].id).status = "checked"
       /\ ItemState(c[1], c[2].id).installed
       /\ ItemState(c[1], c[2].id).version = None

\* The batch pass of `type` spawns the install of child s in this step.
BatchSpawnsNow(type, s) == SpawnedNow(s) /\ ops'[s].waiter = type

\* C17: a batch pass moves through its list forwards only: each install it
\* spawns is for the item at a later position than any before, an item not
\* recorded installed, and is spawned only when no earlier install of the pass
\* (its re-check included) is still under way; starting a pass, skips included,
\* shows no error and logs nothing, and when the pass moves on the only error
\* or log entry is that of the install it awaited, none for an item it skips.
C17_BatchIsOnePass ==
  [][\A type \in Types :
       /\ \A s \in Slots :
            BatchSpawnsNow(type, s)
              => /\ batch'[type].running
                 /\ batch'[type].i > batch[type].i
                 /\ batch'[type].i <= Len(batch'[type].list)
                 /\ ops'[s].item = batch'[type].list[batch'[type].i]
                 /\ ops'[s].kind = "install"
                 /\ ~ItemState(type, ops'[s].item.id).installed
                 /\ \A o \in Slots \ {s} : ops'[o].kind # "free" => ops'[o].waiter # type
       /\ (batch[type].running /\ batch'[type].running)
            => /\ batch'[type].list = batch[type].list
               /\ batch'[type].i >= batch[type].i
       /\ (~batch[type].running /\ (batch'[type].running \/ batch'[type] # batch[type]))
            => /\ errors' = errors /\ activityLog' = activityLog /\ uncaught' = uncaught
       /\ (batch[type].running /\ batch'[type] # batch[type])
            => \E s \in Slots :
                 /\ FinishedNow(s) /\ ops[s].waiter = type
                 /\ \/ errors' = errors
                    \/ errors' = Append(errors, [message |-> <<"Failed to", "install", ops[s].item.id>>,
                                                 details |-> "stderr"])
                 /\ \/ activityLog' = activityLog
                    \/ /\ Tail(activityLog') = activityLog
                       /\ Head(activityLog').name \in {<<ops[s].item.id>>, <<"install", ops[s].item.id>>}]_vars

\* The pass has installed the first item of its list, awaited its re-check
\* and is at the second item, whose install is running.
C17_Witness ==
  \E type \in Types, s \in Slots :
    /\ batch[type].running
    /\ batch[type].i = 2
    /\ Live(s)
    /\ ops[s].waiter = type
    /\ activityLog # <<>>
    /\ Head(activityLog).action = "installed"
    /\ Head(activityLog).name = <<batch[type].list[1].id>>

\* C18: a batch pass attempts a dependency before the items that depend on
\* it: when it spawns the install of an item, no item that depends on it and
\* is not installed lies at an earlier position of the list, passed over.
C18_BatchVisitsDependencyFirst ==
  [][\A type \in Types, s \in Slots :
       BatchSpawnsNow(type, s)
         => \A k \in 1..(batch'[type].i - 1) :
              batch'[type].list[k].depends_on = ops'[s].item.id
                => ItemState(type, batch'[type].list[k].id).installed]_vars

\* The item's depends_on names an id no tool or app of the configuration has.
Dangling(item) ==
  /\ item.depends_on # None
  /\ item.depends_on \notin IdsOf(dependencies(currentConfig)) \cup IdsOf(apps(currentConfig))

\* C19: an item whose depends_on names no item of the configuration is never
\* installable: its card does not offer Install, no batch pass has an install
\* of it under way, and nothing has thrown.
C19_DanglingDependencyNeverEligible ==
  \A c \in ConfigItems :
    Dangling(c[2])
      => /\ Get(Cards(c[1]), c[2].id, None) # "install"
         /\ \A s \in Slots :
              (ops[s].kind # "free" /\ ops[s].item.id = c[2].id) => ops[s].waiter = None
         /\ uncaught = {}

\* The last n elements of a sequence.
LastLines(seq, n) == IF Len(seq) <= n THEN seq ELSE SubSeq(seq, Len(seq) - n + 1, Len(seq))

\* C20: the buffer of every correlation id holds at most MAX_TERMINAL_LINES
\* lines, and they are the last MAX_TERMINAL_LINES non-empty lines that arrived
\* for that id since its buffer was last cleared, in the order they arrived.
C20_BufferHoldsMostRecentLines ==
  \A id \in TerminalIds :
    LET lines == Get(terminalOutputs, id, [lines |-> <<>>]).lines
    IN /\ Len(lines) <= MAX_TERMINAL_LINES
       /\ lines = LastLines(Arrivals.received[id], MAX_TERMINAL_LINES)

\* More lines than the buffer holds have arrived since the last clear, the
\* last of them in a chunk of two lines.
C20_Witness ==
  \E id \in TerminalIds :
    /\ id \in DOMAIN terminalOutputs
    /\ Len(Arrivals.received[id]) > MAX_TERMINAL_LINES + 1
    /\ Len(terminalOutputs[id].lines) = MAX_TERMINAL_LINES
    /\ terminalOutputs[id].lines[MAX_TERMINAL_LINES].stream = "stdout"
    /\ terminalOutputs[id].lines[MAX_TERMINAL_LINES - 1].stream = "stdout"

\* The first n elements of a sequence.
FirstEntries(seq, n) == IF Len(seq) <= n THEN seq ELSE SubSeq(seq, 1, n)

\* C21: the activity log holds at most MAX_ACTIVITY entries, and they are the
\* MAX_ACTIVITY most recently appended entries, most recent first, each as it
\* was appended.
C21_LogHoldsMostRecentEntries ==
  /\ Len(activityLog) <= MAX_ACTIVITY
  /\ activityLog = FirstEntries(Appended.appended, MAX_ACTIVITY)

\* More entries than the log holds have been appended, the last two one by one.
C21_Witness ==
  /\ Len(Appended.appended) > MAX_ACTIVITY + 1
  /\ Len(activityLog) = MAX_ACTIVITY
  /\ activityLog[1].action = "upgraded"
  /\ activityLog[2].action = "installed"
  /\ activityLog[2].version = None

\* An entry with an empty id, name, check or install.
EmptyField(item) ==
  item.id = "" \/ item.name = "" \/ item.check = <<>> \/ item.install = <<>>

\* A document that is not an object, lacks name, lacks dependencies or apps
\* as sequences, or has an entry with an empty field.
Defective(doc) ==
  \/ doc.kind # "object"
  \/ doc.missing # {}
  \/ doc.config.name = ""
  \/ \E i \in DOMAIN doc.config.dependencies : EmptyField(doc.config.dependencies[i])
  \/ \E i \in DOMAIN doc.config.apps : EmptyField(doc.config.apps[i])

\* C22: whatever the source, the load of a defective document shows an error
\* and leaves the current configuration and every item state as they were;
\* nothing is thrown.
C22_DefectiveDocumentFailsWholeLoad ==
  [][\A source \in Sources, doc \in Documents :
       (Defective(doc) /\ LoadDocument(source, doc))
         => /\ Len(errors') = Len(errors) + 1
            /\ uncaught' = uncaught
            /\ UNCHANGED <<currentConfig, toolStates, appStates>>]_vars

\* The load of `doc` from `source` reaches "Reset state for new config".
Succeeds(source, doc) ==
  loadSource(source, doc).error = <<>> /\ loadSource(source, doc).doc.kind = "object"

\* The store holds exactly one state, equal to `st`, per item of the list.
OnePerItem(store, list, st) ==
  /\ DOMAIN store = IdsOf(list)
  /\ \A id \in DOMAIN store : store[id] = st

\* C23: a successful load leaves the stores holding exactly one state per
\* dependency and per app of the new configuration and none of the previous
\* one's, each created unchecked and not installed before checkAllTools
\* starts (which turns each to checking); resetConfig leaves no
\* configuration and no item state.
C23_LoadReplacesStoresResetEmptiesThem ==
  [][/\ \A source \in Sources, doc \in Documents :
          (loads' = loads + 1 /\ Succeeds(source, doc) /\ LoadDocument(source, doc))
            => LET cfg == Effective(doc)
                   created == resetState(Cur, cfg)
               IN /\ OnePerItem(created.toolStates, cfg.dependencies, Unchecked)
                  /\ OnePerItem(created.appStates, cfg.apps, Unchecked)
                  /\ currentConfig' = cfg
                  /\ OnePerItem(toolStates', cfg.dependencies, Checking)
                  /\ OnePerItem(appStates', cfg.apps, Checking)
     /\ (loads' = loads /\ ResetConfig)
          => /\ currentConfig' = NoConfig
             /\ toolStates' = EmptyObject
             /\ appStates' = EmptyObject]_vars

\* The second load has delivered the configuration "dangling", whose items
\* are being checked.
C23_Witness ==
  /\ loads = 2
  /\ currentConfig.name = "dangling"
  /\ DOMAIN toolStates = {"b"}
  /\ DOMAIN appStates = {"x"}
  /\ toolStates["b"].status = "checking"

\* The ids of a configuration's items, in file order.
AllItems(cfg) == cfg.dependencies \o cfg.apps

\* Following depends_on from the item `id` for `n` steps stays on items.
RECURSIVE ChainStays(_, _, _)
ChainStays(cfg, id, n) ==
  IF n = 0 THEN TRUE
  ELSE \E i \in DOMAIN AllItems(cfg) :
         /\ AllItems(cfg)[i].id = id
         /\ AllItems(cfg)[i].depends_on # None
         /\ ChainStays(cfg, AllItems(cfg)[i].depends_on, n - 1)

\* Unique ids, every depends_on names an item, and no dependency cycle (a
\* chain of depends_on longer than the number of items).
WellFormed(cfg) ==
  LET items == AllItems(cfg)
  IN /\ \A i, j \in DOMAIN items : items[i].id = items[j].id => i = j
     /\ \A i \in DOMAIN items :
          items[i].depends_on # None => items[i].depends_on \in IdsOf(items)
     /\ \A i \in DOMAIN items : ~ChainStays(cfg, items[i].id, Len(items))

\* C24: every configuration that has loaded has unique ids, depends_on
\* values that name an item of it, and no dependency cycle.
C24_LoadedConfigurationIsWellFormed ==
  currentConfig # NoConfig => WellFormed(currentConfig)

\* C25: every document the companion writes passes validateConfig, and
\* opening it loads it: no error is shown and it becomes the configuration.
C25_GeneratedDocumentLoads ==
  (probe # NoProbe /\ probe.fn = "generate")
    => /\ validateConfig(probe.doc) = <<>>
       /\ loads > 0 => (errors = <<>> /\ currentConfig = Effective(probe.doc))

\* C26: every result of a runner is delivered as a value with
\* succeeded = (exitCode == 0); after a spawn failure exitCode is 1 and
\* stderr holds the error text; after a timeout or a termination by signal
\* succeeded is false and exitCode is a non-zero number.
C26_RunnerResultContract ==
  (probe # NoProbe /\ probe.fn \in Runners)
    => LET result == probe.result
           ending == probe.ending
       IN /\ result.settled = "resolved"
          /\ result.succeeded = (result.exitCode = Num(0))
          /\ ending.kind = "spawn-error"
               => /\ result.exitCode = Num(1)
                  /\ result.stderr = Message(ending.errno)
          /\ ending.kind \in {"timeout", "signal"}
               => /\ ~result.succeeded
                  /\ result.exitCode.type = "number"
                  /\ result.exitCode.num # 0

\* C27: a click on the confirm button while an uninstall is pending closes
\* the modal and runs the uninstall of exactly the pending item: nothing is
\* thrown, and when an uninstall command can be derived from the item's
\* install command it is spawned for that item.
C27_ConfirmRunsPendingUninstall ==
  [][(ClickConfirm /\ pendingUninstall # NoPending)
       => LET type == pendingUninstall.type
              id == pendingUninstall.id
              item == Find(ItemsOf(currentConfig, type), id)
          IN /\ ~uninstallModal'.display
             /\ uncaught' = uncaught
             /\ (item # NoItem /\ deriveCommand("uninstall", item.install) # NoCommand)
                  => \E s \in Slots :
                       /\ SpawnedNow(s)
                       /\ ops'[s].kind = "uninstall"
                       /\ ops'[s].type = type
                       /\ ops'[s].item.id = id]_vars

\* A command is outstanding: a child runs, or a check or an enrichment has
\* not returned.
Outstanding ==
  \/ \E slot \in Slots : ops[slot].kind # "free"
  \/ \E f \in DOMAIN checkAlls : checkAlls[f].pending # {}
  \/ DOMAIN enriching # {}

\* C28: once every command has returned, no item is left checking or
\* installing: every item that was checking or installing is checked, with
\* installing cleared, whatever the interleaving of checks, installs,
\* cancellations, upgrades and the opening of another configuration was.
C28_NoItemStuck ==
  ~Outstanding
    => /\ \A id \in DOMAIN toolStates :
            toolStates[id].status = "checked" /\ ~toolStates[id].installing
       /\ \A id \in DOMAIN appStates :
            appStates[id].status = "checked" /\ ~appStates[id].installing

\* The lines of the terminal buffer of `id` in a store of buffers.
LinesOf(outputs, id) == Get(outputs, id, [lines |-> <<>>]).lines

\* The terminal id of the operation in `slot` of `table`.
TidOf(table, slot) == TerminalId(table[slot].type, table[slot].item.id)

\* C29: the step that spawns the child of a streaming action leaves the
\* buffer of the action's own id empty and the lines of every other id's
\* buffer as they were; and while an action has not shared its id with
\* another action, every line in its id's buffer was written by its child.
C29_ActionClearsOwnBufferOnly ==
  [][/\ \A s \in Slots :
          SpawnedNow(s)
            => /\ LinesOf(terminalOutputs', TidOf(ops', s)) = <<>>
               /\ \A id \in (DOMAIN terminalOutputs \cup DOMAIN terminalOutputs')
                              \ {TidOf(ops', s)} :
                    LinesOf(terminalOutputs', id) = LinesOf(terminalOutputs, id)
     /\ probe' # NoProbe
          => \A s \in Slots :
               (ops'[s].kind # "free" /\ s \notin probe'.slots)
                 => \A i \in DOMAIN LinesOf(terminalOutputs', TidOf(ops', s)) :
                      LinesOf(terminalOutputs', TidOf(ops', s))[i].text = LineOf(s)]_vars

\* The second action on tool a runs alone, after the first has ended, and
\* its child has written a line.
C29_Witness ==
  /\ probe # NoProbe
  /\ probe.slots = {}
  /\ ops[1].kind = "free"
  /\ ops[2].kind # "free"
  /\ TidOf(ops, 2) = "tool-a"
  /\ LinesOf(terminalOutputs, "tool-a") # <<>>
  /\ \E i \in DOMAIN errors : errors[i].message = <<"Failed to", "install", "a">>

\* C30: a chunk is delivered only to the panel of the command that produced
\* it: with the single-slot callback of the legacy bridge, every chunk a
\* panel of the legacy window shows was written by that panel's command.
C30_ChunkReachesItsOwnPanelOnly ==
  probe.fn = "legacy"
    => \A p \in LegacyPanels :
         \A i \in DOMAIN probe.output[p] : probe.output[p][i] = p

\* A streaming action (install, uninstall, upgrade) of the item has a child
\* that is running.
HasLiveProcess(type, id) ==
  \E s \in Slots : Live(s) /\ ops[s].type = type /\ ops[s].item.id = id

\* C31: an item's installing flag is true exactly while a streaming action
\* (install, uninstall or upgrade) for that item has a live process: neither
\* a cancel request nor a concurrent checkAll or re-check clears it before
\* the process has exited.
C31_InstallingExactlyWhileProcessLive ==
  \A p \in ConfigItems :
    ItemState(p[1], p[2].id).installing <=> HasLiveProcess(p[1], p[2].id)

\* The registry holds the child numbered s under the id it was spawned under.
Registered(s) ==
  /\ CorrelationId(s) \in DOMAIN activeProcesses
  /\ activeProcesses[CorrelationId(s)].child = s

\* C32: every live process started by runStreamingWithId stays registered
\* under its id until its own exit, and a completion result carries
\* cancelled = true only if cancelProcess targeted that very process: the
\* close handler of one process never reads the flag of, or deletes the
\* entry of, another process started under the same id.
C32_RegistryEntryBelongsToItsProcess ==
  [][\A s \in Slots :
       /\ (Live(s) /\ Registered(s) /\ ~ClosedNow(s)) => Registered(s)'
       /\ SpawnedNow(s) => Registered(s)'
       /\ (ClosedNow(s) /\ resolved'.cancelled) => ops[s].signalled
       /\ (ClosedNow(s) /\ ops[s].signalled) => resolved'.cancelled]_vars

\* C33: at every moment the keys of the tool and app state stores are
\* exactly the item ids of the currently loaded configuration (empty when
\* none): no completion of a check, an enrichment or a streaming action
\* started under a previous configuration creates or updates an entry.
C33_StoreKeysAreCurrentItemIds ==
  /\ DOMAIN toolStates = IdsOf(dependencies(currentConfig))
  /\ DOMAIN appStates = IdsOf(apps(currentConfig))

\* The state carries a version field.
HasVersionFields(st) ==
  st.version # None \/ st.latestVersion # None \/ st.hasUpdate

\* C34: version fields (version, latestVersion, hasUpdate) are set only on
\* an item whose current state is checked and installed: no enrichment that
\* started before a later uninstall, upgrade, re-check or checkAll writes
\* its result onto an item that is by then checking or not installed.
C34_VersionFieldsOnlyOnCheckedInstalled ==
  /\ \A id \in DOMAIN toolStates :
       HasVersionFields(toolStates[id])
         => toolStates[id].status = "checked" /\ toolStates[id].installed
  /\ \A id \in DOMAIN appStates :
       HasVersionFields(appStates[id])
         => appStates[id].status = "checked" /\ appStates[id].installed

\* C35: an 'installed' activity entry is appended only if the re-check after
\* the install recorded installed = true for the item, and an 'uninstalled'
\* entry only if the re-check after the uninstall recorded installed = false.
C35_LoggedOutcomeMatchesRecheck ==
  [][\A s \in Slots :
       (FinishedNow(s) /\ activityLog' # activityLog)
         => /\ activityLog'[1].action = "installed"
                 => ItemStateNext(ops[s].type, ops[s].item.id).installed
            /\ activityLog'[1].action = "uninstalled"
                 => ~ItemStateNext(ops[s].type, ops[s].item.id).installed]_vars

\* What the check command of the item of child s finds in the next state.
FoundNext(s) ==
  IF ops[s].item.check = <<>> THEN FALSE ELSE sys'[ops[s].item.check[2]] # "missing"

\* C36: an install whose process exits with code 0 is always followed by a
\* re-check, also when a cancel request was registered just before that exit
\* (succeeded = true and cancelled = true); and when an install attempt ends
\* with the item in a checked state, its recorded installed flag equals the
\* outcome its check command would give.
C36_ExitZeroInstallIsRechecked ==
  [][\A s \in Slots :
       /\ (ClosedNow(s) /\ ops[s].kind = "install" /\ resolved'.succeeded)
            => ~FinishedNow(s) /\ ops'[s].pc = "check"
       /\ (FinishedNow(s) /\ ops[s].kind = "install"
             /\ ItemStateNext(ops[s].type, ops[s].item.id).status = "checked")
            => ItemStateNext(ops[s].type, ops[s].item.id).installed = FoundNext(s)]_vars

\* C37: every status message queued by logActivity is displayed, one at a
\* time and in FIFO order, unless a direct setStatus discards the queue
\* first: the messages shown followed by those still queued are the
\* messages accepted, and a message waits in the queue only while a timer is
\* pending (also when it was queued while the fade back to Ready was
\* pending): once no timer is pending, nothing is left undisplayed.
C37_QueuedStatusIsDisplayed ==
  probe.fn = "status"
    => /\ probe.shown \o probe.statusQueue = probe.accepted
       /\ probe.statusQueue # <<>> => probe.statusTimeout # None

\* C38: in the Swift app a cell's state follows idle, then running, then
\* completed or failed, and never returns to idle or running afterwards;
\* each cell's command is started at most once; a command that exits
\* non-zero ends in completed (with succeeded = false), and failed is
\* reached only when the process could not be started.
C38_CellRunsOnce ==
  [][probe.fn = "cells"
       => \A c \in Cells :
            LET old == probe.state[c]
                new == probe'.state[c]
            IN /\ old.tag = "idle" => new.tag \in {"idle", "running"}
               /\ old.tag = "running" => new.tag \in {"running", "completed", "failed"}
               /\ old.tag \in {"completed", "failed"} => new = old
               /\ probe'.starts[c] <= 1
               /\ (old.tag = "running" /\ new.tag = "completed")
                    => /\ probe.procs[c] > 0
                       /\ succeeded(new) <=> (new.exitCode = 0)
               /\ (old.tag = "running" /\ new.tag = "failed")
                    => probe.throwing[c] > 0]_vars

\* The sources of a sequence of loads (most recent first) that the history
\* records: each once, at its most recent load, without 'bundled'.
RECURSIVE MostRecentFirst(_)
MostRecentFirst(loadedSources) ==
  IF loadedSources = <<>> THEN <<>>
  ELSE LET rest == MostRecentFirst(SelectSeq(Tail(loadedSources),
                                             LAMBDA s : s # Head(loadedSources)))
       IN IF Head(loadedSources) = Bundled THEN rest ELSE <<Head(loadedSources)>> \o rest

\* The paths of the persisted history, in order.
HistoryPaths == [i \in DOMAIN getConfigHistory(History) |-> getConfigHistory(History)[i].path]

\* C39: after any sequence of successful config loads the persisted history
\* holds at most 10 entries with pairwise distinct paths, most recently
\* loaded first (a path loaded again moves to the front without growing the
\* list), and the source 'bundled' is never recorded.
C39_HistoryIsRecentDistinctPaths ==
  History.fn = "history"
    => /\ Len(HistoryPaths) <= MAX_HISTORY
       /\ \A i, j \in DOMAIN HistoryPaths : i # j => HistoryPaths[i] # HistoryPaths[j]
       /\ HistoryPaths = slice(MostRecentFirst(History.loaded), MAX_HISTORY)
       /\ \A i \in DOMAIN HistoryPaths : HistoryPaths[i] # Bundled

\* The history is full, an eleventh path has been loaded, and then a path
\* already present was loaded again: it is first and the list has not grown.
C39_Witness ==
  /\ probe.fn = "history"
  /\ Len(HistoryPaths) = MAX_HISTORY
  /\ Len(MostRecentFirst(probe.loaded)) > MAX_HISTORY
  /\ HistoryPaths[1] = PathOf(2)
  /\ HistoryPaths[2] = PathOf(MAX_HISTORY + 1)

====
